---- MODULE Spec2Model ----
(***************************************************************************)
(* Routstr client SDK: the Cashu proof store, the cached API token, the    *)
(* balance query, token minting, refund and the paid chat request, as a    *)
(* state machine.  The browser's localStorage keys are the client state;   *)
(* the mint and the remote Routstr node are the environment.  Every async  *)
(* function is cut at its network awaits: between two awaits the code runs *)
(* to the next await (or to its return) in one step, as JavaScript does.   *)
(***************************************************************************)
EXTENDS Integers, Sequences, FiniteSets, TLC

\* ------------------------------------------------------------------ bounds
\* Secrets the mint may issue in one run (fresh proofs are numbered upward).
MaxSecret == 8
\* Length cap of the transaction history (paid requests stop being started).
MaxHistory == 1
\* With two callers, calls are started while the next secret of the mint is at
\* most this.
MaxConcurrentSecret == 5
\* Length cap of the list of sent gift wraps.
MaxWrapped == 3

\* --------------------------------------------------------- program constants
MSATS_PER_SAT == 1000
\* The event kind of a gift wrap.
GIFT_WRAP_KIND == 1059

\* Requests are priced in half sats so that fractional prices exist.
HALF_SAT_MSATS == MSATS_PER_SAT \div 2

MintUrl == "https://mint.minibits.cash/Bitcoin"

\* ------------------------------------------------------------------- proofs
Proof(s, a) == [secret |-> s, amount |-> a]

RECURSIVE SumProofs(_)
SumProofs(ps) ==
  IF ps = <<>> THEN 0 ELSE Head(ps).amount + SumProofs(Tail(ps))

Secrets(ps) == {ps[i].secret : i \in 1..Len(ps)}

\* The proofs of ps at the positions I, in order.
PickProofs(ps, I) ==
  LET F[k \in 0..Len(ps)] ==
        IF k = 0 THEN <<>>
        ELSE IF k \in I THEN Append(F[k - 1], ps[k]) ELSE F[k - 1]
  IN F[Len(ps)]

\* ------------------------------------------------------------------- tokens
\* `cashuA${btoa(JSON.stringify({token: [{mint, proofs}]}))}`
EncodeToken(mintUrl, ps) == [prefix |-> "cashuA", mint |-> mintUrl, proofs |-> ps]

\* The value of a localStorage key that is not set (getItem gives null).
NoToken == [prefix |-> "", mint |-> "", proofs |-> <<>>]
Absent(v) == [present |-> FALSE, val |-> v]
Stored(v) == [present |-> TRUE, val |-> v]

\* Tokens issued to third parties, which the user may import: their proofs
\* carry the first secrets, and the mint issues fresh secrets after them.
\* The last one is a token string that holds no proof.
ExtTokens ==
  { EncodeToken(MintUrl, <<Proof(1, 1), Proof(2, 2)>>),
    EncodeToken(MintUrl, <<Proof(3, 1)>>),
    EncodeToken(MintUrl, <<>>) }
FirstFreshSecret ==
  1 + Cardinality(UNION {Secrets(t.proofs) : t \in ExtTokens})

\* Models of the node, with max_cost in half sats (2 = 1 sat, 3 = 1.5 sat).
ModelCost2 == [m1 |-> 2, m2 |-> 3]
ModelIds == {"m1", "m2", "unknown"}

\* Amounts (half sats) passed to getOrCreateApiToken when called directly.
Amounts2 == {2, 3, 6}

\* -------------------------------------------------------------- the mint
\* Power-of-two denominations of an amount, ascending.
RECURSIVE DenomsFrom(_, _)
DenomsFrom(a, d) ==
  IF a = 0 THEN <<>>
  ELSE IF a % 2 = 1 THEN <<d>> \o DenomsFrom(a \div 2, 2 * d)
  ELSE DenomsFrom(a \div 2, 2 * d)

Denoms(a) == DenomsFrom(a, 1)

FreshProofs(next, a) ==
  [i \in 1..Len(Denoms(a)) |-> Proof(next + i - 1, Denoms(a)[i])]

CanIssue(env, a) == env.next + Len(Denoms(a)) - 1 <= MaxSecret

\* wallet.loadMint() then wallet.send(amount, proofs): the outcomes.  A
\* failure leaves the mint unchanged.  The wallet picks proofs worth at least
\* the amount (no picked proof is superfluous); an exact pick is sent as it
\* is, any other pick is swapped at the mint for fresh proofs.
Selections(amount, ps) ==
  { I \in SUBSET (1..Len(ps)) :
      /\ SumProofs(PickProofs(ps, I)) >= amount
      /\ \A i \in I : SumProofs(PickProofs(ps, I \ {i})) < amount }

MintSendOutcomes(env, amount, ps) ==
  { [kind |-> "error", send |-> <<>>, keep |-> <<>>, env |-> env] }
  \cup
  ( IF SumProofs(ps) < amount
    THEN { [kind |-> "funds", send |-> <<>>, keep |-> <<>>, env |-> env] }
    ELSE UNION {
      LET sel  == PickProofs(ps, I)
          rest == PickProofs(ps, (1..Len(ps)) \ I)
          over == SumProofs(sel) - amount
      IN IF over = 0
         THEN { [kind |-> "ok", send |-> sel, keep |-> rest, env |-> env] }
         ELSE IF Secrets(sel) \cap env.spent # {}
         THEN { [kind |-> "error", send |-> <<>>, keep |-> <<>>, env |-> env] }
         ELSE IF env.next + Len(Denoms(amount)) + Len(Denoms(over)) - 1 > MaxSecret
         THEN {}
         ELSE { [kind |-> "ok",
                 send |-> FreshProofs(env.next, amount),
                 keep |-> rest \o FreshProofs(env.next + Len(Denoms(amount)), over),
                 env  |-> [env EXCEPT
                             !.spent = @ \cup Secrets(sel),
                             !.next = @ + Len(Denoms(amount)) + Len(Denoms(over))]] }
      : I \in Selections(amount, ps) } )

\* wallet.loadMint() then wallet.receive(token): the proofs of the token are
\* swapped for fresh ones; a token with a spent proof is refused; a token
\* with no proof gives no proof, or an error.
MintReceiveOutcomes(env, tok) ==
  { [kind |-> "error", proofs |-> <<>>, env |-> env] }
  \cup
  ( IF tok.proofs = <<>> THEN { [kind |-> "ok", proofs |-> <<>>, env |-> env] }
    ELSE IF Secrets(tok.proofs) \cap env.spent # {}
    THEN { [kind |-> "spent", proofs |-> <<>>, env |-> env] }
    ELSE IF ~CanIssue(env, SumProofs(tok.proofs)) THEN {}
    ELSE { [kind |-> "ok",
            proofs |-> FreshProofs(env.next, SumProofs(tok.proofs)),
            env |-> [env EXCEPT
                       !.spent = @ \cup Secrets(tok.proofs),
                       !.next = @ + Len(Denoms(SumProofs(tok.proofs)))]] } )

\* ------------------------------------------------------ the remote node
\* The node keeps a balance in millisats under each bearer token it has
\* redeemed.  A token it has not seen is redeemed at the mint on first use;
\* a token whose proofs are spent and that has no account is refused.
Live(env, tok) == tok \in DOMAIN env.acct

Redeemable(env, tok) ==
  /\ ~Live(env, tok)
  /\ tok.proofs # <<>>
  /\ Secrets(tok.proofs) \cap env.spent = {}

Known(env, tok) == Live(env, tok) \/ Redeemable(env, tok)

Admit(env, tok) ==
  IF Redeemable(env, tok)
  THEN [env EXCEPT
          !.spent = @ \cup Secrets(tok.proofs),
          !.acct = @ @@ (tok :> SumProofs(tok.proofs) * MSATS_PER_SAT)]
  ELSE env

\* What the node holds for a token, in millisats (what a refund would yield).
RemoteBalance(env, tok) ==
  IF Live(env, tok) THEN env.acct[tok]
  ELSE IF Redeemable(env, tok) THEN SumProofs(tok.proofs) * MSATS_PER_SAT
  ELSE 0

\* A request that does not reach the node, or that the node fails: status 0
\* stands for a transport exception.  The node's state is unchanged.
Unavailable(env) ==
  { [status |-> s, balance |-> 0, token |-> Absent(NoToken), env |-> env]
      : s \in {0, 500} }

\* GET v1/wallet/
WalletOutcomes(env, tok) ==
  Unavailable(env) \cup
  ( IF ~Known(env, tok)
    THEN { [status |-> 401, balance |-> 0, token |-> Absent(NoToken), env |-> env] }
    ELSE LET e == Admit(env, tok)
             b == e.acct[tok]
         IN { [status |-> 200, balance |-> b, token |-> Absent(NoToken), env |-> e] }
            \cup
            ( IF b = 0
              THEN { [status |-> 402, balance |-> 0, token |-> Absent(NoToken),
                      env |-> e] }
              ELSE {} ) )

\* POST v1/wallet/refund: the whole sats of the balance come back as a fresh
\* token, the account is closed, a sub-sat rest stays with the node.
RemoveKey(f, k) == [x \in DOMAIN f \ {k} |-> f[x]]

RefundOutcomes(env, tok) ==
  Unavailable(env) \cup
  ( IF ~Known(env, tok)
    THEN { [status |-> 401, balance |-> 0, token |-> Absent(NoToken), env |-> env] }
    ELSE LET e    == Admit(env, tok)
             b    == e.acct[tok]
             sats == b \div MSATS_PER_SAT
             shut == [e EXCEPT !.acct = RemoveKey(@, tok),
                               !.consumed = @ + (b % MSATS_PER_SAT)]
         IN IF sats = 0
            THEN { [status |-> 200, balance |-> 0, token |-> Absent(NoToken),
                    env |-> shut] }
            ELSE IF ~CanIssue(env, sats) THEN {}
            ELSE { [status |-> 200, balance |-> 0,
                    token |-> Stored(EncodeToken(MintUrl, FreshProofs(e.next, sats))),
                    env |-> [shut EXCEPT !.next = @ + Len(Denoms(sats))]] } )

\* POST v1/chat/completions for a model priced cost2 half sats: the node
\* answers 402 when the balance is below the price, else charges some part
\* of the price; it may refuse a request (400, 404, 429) without charging.
CompletionOutcomes(env, tok, cost2) ==
  Unavailable(env) \cup
  { [status |-> s, balance |-> 0, token |-> Absent(NoToken), env |-> env]
      : s \in {400, 404, 429} } \cup
  ( IF ~Known(env, tok)
    THEN { [status |-> s, balance |-> 0, token |-> Absent(NoToken), env |-> env]
             : s \in {401, 403} }
    ELSE LET e == Admit(env, tok)
             b == e.acct[tok]
         IN IF b < cost2 * HALF_SAT_MSATS
            THEN { [status |-> 402, balance |-> 0, token |-> Absent(NoToken),
                    env |-> e] }
            ELSE { [status |-> 200, balance |-> 0, token |-> Absent(NoToken),
                    env |-> [e EXCEPT !.acct[tok] = @ - k * HALF_SAT_MSATS,
                                      !.consumed = @ + k * HALF_SAT_MSATS]]
                     : k \in 1..cost2 } )

\* ------------------------------------------------------------ client state
VARIABLES
  ls,     \* localStorage: the proofs, the current token, the history, the
          \* gift wraps sent
  env,    \* the mint (spent secrets, next secret, quotes), the node's
          \* accounts, and two running totals: msats the node kept, sats
          \* imported
  proc,   \* per caller: where its async call is suspended, and its result
  act     \* the step taken last: which handler ran, on which answer

vars == <<ls, env, proc, act>>

Procs == {"main", "other"}
\* The caller that runs alone under Spec.
Main == "main"

\* What a call returns or throws.
Res(kind, tag, msg) ==
  [kind |-> kind, tag |-> tag, msg |-> msg, tok |-> NoToken,
   api |-> 0, proofs |-> 0, total |-> 0, amount |-> 0]

NoResult == Res("none", "none", "")
Null == Res("value", "null", "")
NoTokens == Res("value", "hasTokensFalse", "")
TokenRes(t) == [Res("value", "token", "") EXCEPT !.tok = t]
Success(msg) == Res("value", "success", msg)
Failure(msg) == Res("value", "failure", msg)
Throw(name) == Res("throw", name, "")
BalanceRes(api, proofs, total) ==
  [Res("value", "balance", "") EXCEPT !.api = api, !.proofs = proofs, !.total = total]

IdleProc ==
  [pc |-> "idle", stack |-> <<>>, tok |-> NoToken, rd |-> <<>>, amt |-> 0,
   op |-> "none", result |-> NoResult]

Frame(f, model, total) == [f |-> f, model |-> model, total |-> total]
Push(pr, fr) == [pr EXCEPT !.stack = <<fr>> \o @]
\* A call suspended at an await, with the locals it reads afterwards.
Await(pr, pc, tok, rd, amt) ==
  [pr EXCEPT !.pc = pc, !.tok = tok, !.rd = rd, !.amt = amt]
Running(pr) == [pr EXCEPT !.pc = "run", !.tok = NoToken, !.rd = <<>>, !.amt = 0]
Step(l, pr) == [ls |-> l, pr |-> pr]

StoredProofs(l) == IF l.proofs.present THEN l.proofs.val ELSE <<>>

\* Math.ceil of an amount given in half sats, in sats.
Ceil2(a2) == IF a2 % 2 # 0 THEN (a2 + 1) \div 2 ELSE a2 \div 2

GetBalanceFromStoredProofs(l) ==
  IF ~l.proofs.present THEN 0 ELSE SumProofs(l.proofs.val)

InvalidateApiToken(l) == [l EXCEPT !.token = Absent(NoToken)]

\* [...existingProofs, ...proofs] written back
AppendProofs(l, ps) == [l EXCEPT !.proofs = Stored(StoredProofs(l) \o ps)]

GetTransactionHistory(l) == IF l.history.present THEN l.history.val ELSE <<>>

\* Faulty variant: the new record is put first.
AddTransaction_Prepends(l, t) ==
  [l EXCEPT !.history = Stored(<<t>> \o GetTransactionHistory(l))]

AddTransaction(l, t) ==
  [l EXCEPT !.history = Stored(Append(GetTransactionHistory(l), t))]

\* Faulty variant: status 404 falls to the default case.
HandleHttpError_NoNotFound(status) ==
  CASE status = 400 -> Throw("ValidationError")
    [] status = 401 -> Throw("AuthenticationError")
    [] status = 402 -> Throw("InsufficientBalanceError")
    [] status = 429 -> Throw("RoutstrClientError:RATE_LIMITED")
    [] status = 500 -> Throw("RoutstrClientError:SERVER_ERROR")
    [] OTHER -> Throw("NetworkError")

HandleHttpError(status) ==
  CASE status = 400 -> Throw("ValidationError")
    [] status = 401 -> Throw("AuthenticationError")
    [] status = 402 -> Throw("InsufficientBalanceError")
    [] status = 404 -> Throw("RoutstrClientError:NOT_FOUND")
    [] status = 429 -> Throw("RoutstrClientError:RATE_LIMITED")
    [] status = 500 -> Throw("RoutstrClientError:SERVER_ERROR")
    [] OTHER -> Throw("NetworkError")

\* A call returns v: the caller waiting on it (the top frame) runs on to its
\* next await or to its own return; with no caller left the call is over.
RECURSIVE Return(_, _, _)

\* generateApiToken, up to `await wallet.loadMint()` / `wallet.send`
GenerateApiToken(l, pr, amount2) ==
  IF ~l.proofs.present THEN Return(l, pr, Null)
  ELSE Step(l, Await(pr, "gen_mint", NoToken, l.proofs.val, Ceil2(amount2)))

\* Faulty variant: the change is not written back after a split.
GenerateApiTokenSent_KeepsOldProofs(l, pr, o) ==
  IF o.kind = "ok"
  THEN IF o.send = <<>> THEN Return(l, Running(pr), Null)
       ELSE Return(l, Running(pr), TokenRes(EncodeToken(MintUrl, o.send)))
  ELSE Return(l, Running(pr), Null)

\* Faulty variant: the proofs key is written before the outcome of the split is
\* looked at, so a failed split empties it.
GenerateApiTokenSent_StoresOnFailure(l, pr, o) ==
  IF o.kind = "ok" /\ o.send # <<>>
  THEN Return([l EXCEPT !.proofs = Stored(o.keep)], Running(pr),
              TokenRes(EncodeToken(MintUrl, o.send)))
  ELSE Return([l EXCEPT !.proofs = Stored(o.keep)], Running(pr), Null)

\* Faulty variant: the change is appended to the stored proofs.
GenerateApiTokenSent_AppendsChange(l, pr, o) ==
  IF o.kind = "ok"
  THEN IF o.send = <<>> THEN Return(l, Running(pr), Null)
       ELSE Return(AppendProofs(l, o.keep), Running(pr),
                   TokenRes(EncodeToken(MintUrl, o.send)))
  ELSE Return(l, Running(pr), Null)

\* Faulty variant: the proofs sent stay stored next to the change.
GenerateApiTokenSent_StoresSent(l, pr, o) ==
  IF o.kind = "ok"
  THEN IF o.send = <<>> THEN Return(l, Running(pr), Null)
       ELSE Return([l EXCEPT !.proofs = Stored(o.keep \o o.send)], Running(pr),
                   TokenRes(EncodeToken(MintUrl, o.send)))
  ELSE Return(l, Running(pr), Null)

\* Faulty variant: the proofs stored since the read stay, after the change.
GenerateApiTokenSent_MergesAppended(l, pr, o) ==
  IF o.kind = "ok"
  THEN IF o.send = <<>> THEN Return(l, Running(pr), Null)
       ELSE Return([l EXCEPT !.proofs =
                      Stored(o.keep \o
                             PickProofs(StoredProofs(l),
                                        {k \in 1..Len(StoredProofs(l)) :
                                           Secrets(<<StoredProofs(l)[k]>>)
                                             \cap Secrets(pr.rd) = {}}))],
                   Running(pr), TokenRes(EncodeToken(MintUrl, o.send)))
  ELSE Return(l, Running(pr), Null)

\* generateApiToken, from the answer of wallet.send to its return
GenerateApiTokenSent(l, pr, o) ==
  IF o.kind = "ok"
  THEN IF o.send = <<>> THEN Return(l, Running(pr), Null)
       ELSE Return([l EXCEPT !.proofs = Stored(o.keep)], Running(pr),
                   TokenRes(EncodeToken(MintUrl, o.send)))
  ELSE Return(l, Running(pr), Null)

\* Faulty variant: the cached token is not looked up.
GetOrCreateApiToken_IgnoresCache(l, pr, amount2) ==
  IF ~l.proofs.present THEN Return(l, pr, NoTokens)
  ELSE GenerateApiToken(l, Push(pr, Frame("goc", "", 0)), amount2)

\* getOrCreateApiToken, up to `await generateApiToken`
GetOrCreateApiToken(l, pr, amount2) ==
  IF l.token.present THEN Return(l, pr, TokenRes(l.token.val))
  ELSE IF ~l.proofs.present THEN Return(l, pr, NoTokens)
  ELSE GenerateApiToken(l, Push(pr, Frame("goc", "", 0)), amount2)

\* Faulty variant: a token cached meanwhile is kept and returned.
GetOrCreateApiTokenGenerated_KeepsCached(l, pr, newToken) ==
  IF newToken.tag = "token"
  THEN IF l.token.present THEN Return(l, pr, TokenRes(l.token.val))
       ELSE Return([l EXCEPT !.token = Stored(newToken.tok)], pr, newToken)
  ELSE Return(l, pr, Null)

\* Faulty variant: the new token is returned without being cached.
GetOrCreateApiTokenGenerated_NoCache(l, pr, newToken) ==
  IF newToken.tag = "token" THEN Return(l, pr, newToken) ELSE Return(l, pr, Null)

\* getOrCreateApiToken, after generateApiToken returned newToken
GetOrCreateApiTokenGenerated(l, pr, newToken) ==
  IF newToken.tag = "token"
  THEN Return([l EXCEPT !.token = Stored(newToken.tok)], pr, newToken)
  ELSE Return(l, pr, Null)

\* Faulty variant: the refund request is sent without checking for a token.
RefundRemainingBalance_NoTokenCheck(l, pr, token) ==
  LET storedToken == IF token.present THEN token ELSE l.token
  IN Step(l, Await(pr, "rf_fetch", storedToken.val, <<>>, 0))

\* refundRemainingBalance, up to `await fetch(.../v1/wallet/refund)`
RefundRemainingBalance(l, pr, token) ==
  LET storedToken == IF token.present THEN token ELSE l.token
  IN IF ~storedToken.present THEN Return(l, pr, Success("No token to refund"))
     ELSE Step(l, Await(pr, "rf_fetch", storedToken.val, <<>>, 0))

\* Faulty variant: the token is cleared whatever the node answered.
RefundFetched_ClearsOnFailure(l, pr, o) ==
  IF o.status # 200
  THEN Return(InvalidateApiToken(l), Running(pr), Failure("Refund request failed"))
  ELSE IF o.token.present
  THEN Step(l, Await(pr, "rf_mint", o.token.val, <<>>, 0))
  ELSE Return(InvalidateApiToken(l), Running(pr),
              Success("Refund completed successfully"))

\* Faulty variant: the token in the node's answer is not redeemed at the mint.
RefundFetched_SkipsReceive(l, pr, o) ==
  IF o.status # 200
  THEN Return(l, Running(pr), Failure("Refund request failed"))
  ELSE Return(InvalidateApiToken(l), Running(pr),
              Success("Refund completed successfully"))

\* refundRemainingBalance, from the node's answer to `wallet.receive` or return
RefundFetched(l, pr, o) ==
  IF o.status # 200
  THEN Return(l, Running(pr), Failure("Refund request failed"))
  ELSE IF o.token.present
  THEN Step(l, Await(pr, "rf_mint", o.token.val, <<>>, 0))
  ELSE Return(InvalidateApiToken(l), Running(pr),
              Success("Refund completed successfully"))

\* Faulty variant: the redeemed proofs replace the stored ones.
RefundReceived_Overwrites(l, pr, o) ==
  IF o.kind # "ok"
  THEN Return(l, Running(pr), Failure("receive failed"))
  ELSE Return(InvalidateApiToken(IF Len(o.proofs) > 0
                                 THEN [l EXCEPT !.proofs = Stored(o.proofs)] ELSE l),
              Running(pr), Success("Refund completed successfully"))

\* Faulty variant: the refunded proofs are appended to all but the last of
\* the stored ones.
RefundReceived_DropsLast(l, pr, o) ==
  IF o.kind # "ok"
  THEN Return(l, Running(pr), Failure("receive failed"))
  ELSE Return(InvalidateApiToken(
                IF Len(o.proofs) > 0
                THEN [l EXCEPT !.proofs =
                        Stored(SubSeq(StoredProofs(l), 1, Len(StoredProofs(l)) - 1)
                               \o o.proofs)]
                ELSE l),
              Running(pr), Success("Refund completed successfully"))

\* refundRemainingBalance, from the answer of wallet.receive to its return
RefundReceived(l, pr, o) ==
  IF o.kind # "ok"
  THEN Return(l, Running(pr), Failure("receive failed"))
  ELSE Return(InvalidateApiToken(IF Len(o.proofs) > 0
                                 THEN AppendProofs(l, o.proofs) ELSE l),
              Running(pr), Success("Refund completed successfully"))

\* Faulty variant: the imported proofs replace the stored ones.
ImportReceived_Overwrites(l, pr, o) ==
  IF o.kind = "spent"
  THEN Return(l, Running(pr), Failure("This token has already been spent"))
  ELSE IF o.kind # "ok"
  THEN Return(l, Running(pr), Failure("error"))
  ELSE IF Len(o.proofs) = 0
  THEN Return(l, Running(pr), Failure("Invalid token format"))
  ELSE Return([l EXCEPT !.proofs = Stored(o.proofs)], Running(pr),
              [Success("Successfully imported") EXCEPT
                 !.amount = SumProofs(o.proofs)])

\* Faulty variant: the amount reported is the balance after the import.
ImportReceived_ReportsTotal(l, pr, o) ==
  IF o.kind = "spent"
  THEN Return(l, Running(pr), Failure("This token has already been spent"))
  ELSE IF o.kind # "ok"
  THEN Return(l, Running(pr), Failure("error"))
  ELSE IF Len(o.proofs) = 0
  THEN Return(l, Running(pr), Failure("Invalid token format"))
  ELSE Return(AppendProofs(l, o.proofs), Running(pr),
              [Success("Successfully imported") EXCEPT
                 !.amount = SumProofs(StoredProofs(l) \o o.proofs)])

\* Faulty variant: an error of the mint is thrown on to the caller.
ImportReceived_Rethrows(l, pr, o) ==
  IF o.kind = "spent"
  THEN Return(l, Running(pr), Throw("Error"))
  ELSE IF o.kind # "ok"
  THEN Return(l, Running(pr), Throw("Error"))
  ELSE IF Len(o.proofs) = 0
  THEN Return(l, Running(pr), Failure("Invalid token format"))
  ELSE Return(AppendProofs(l, o.proofs), Running(pr),
              [Success("Successfully imported") EXCEPT
                 !.amount = SumProofs(o.proofs)])

\* importToken, from the answer of wallet.receive to its return
ImportReceived(l, pr, o) ==
  IF o.kind = "spent"
  THEN Return(l, Running(pr), Failure("This token has already been spent"))
  ELSE IF o.kind # "ok"
  THEN Return(l, Running(pr), Failure("error"))
  ELSE IF Len(o.proofs) = 0
  THEN Return(l, Running(pr), Failure("Invalid token format"))
  ELSE Return(AppendProofs(l, o.proofs), Running(pr),
              [Success("Successfully imported") EXCEPT
                 !.amount = SumProofs(o.proofs)])

\* fetchBalances, its last two statements
FetchBalancesEnd(l, pr, apiBalance) ==
  Return(l, pr, [Res("value", "balances", "") EXCEPT
                   !.api = apiBalance,
                   !.proofs = GetBalanceFromStoredProofs(l) * MSATS_PER_SAT])

\* fetchBalances, up to `await fetch(.../v1/wallet/)`
FetchBalances(l, pr) ==
  IF l.token.present
  THEN Step(l, Await(pr, "fb_fetch", l.token.val, <<>>, 0))
  ELSE FetchBalancesEnd(l, pr, 0)

\* Faulty variant: any status other than 200 invalidates the token.
FetchBalancesFetched_InvalidatesOnAnyStatus(l, pr, o) ==
  IF o.status = 0 THEN FetchBalancesEnd(l, Running(pr), 0)
  ELSE IF o.status # 200
  THEN FetchBalancesEnd(InvalidateApiToken(l), Running(pr), 0)
  ELSE IF o.balance > 0
  THEN RefundRemainingBalance(l, Push(Running(pr), Frame("fb_refund", "", o.balance)),
                              Absent(NoToken))
  ELSE FetchBalancesEnd(l, Running(pr), o.balance)

\* Faulty variant: status 402 is handled like any other failure.
FetchBalancesFetched_Ignores402(l, pr, o) ==
  IF o.status = 0 THEN FetchBalancesEnd(l, Running(pr), 0)
  ELSE IF o.status # 200
  THEN FetchBalancesEnd(l, Running(pr), 0)
  ELSE IF o.balance > 0
  THEN RefundRemainingBalance(l, Push(Running(pr), Frame("fb_refund", "", o.balance)),
                              Absent(NoToken))
  ELSE FetchBalancesEnd(l, Running(pr), o.balance)

\* fetchBalances, from the node's answer on
FetchBalancesFetched(l, pr, o) ==
  IF o.status = 0 THEN FetchBalancesEnd(l, Running(pr), 0)
  ELSE IF o.status # 200
  THEN IF o.status = 402
       THEN FetchBalancesEnd(InvalidateApiToken(l), Running(pr), 0)
       ELSE FetchBalancesEnd(l, Running(pr), 0)
  ELSE IF o.balance > 0
  THEN RefundRemainingBalance(l, Push(Running(pr), Frame("fb_refund", "", o.balance)),
                              Absent(NoToken))
  ELSE FetchBalancesEnd(l, Running(pr), o.balance)

\* Faulty variant: the balance seen before the refund is still reported.
FetchBalancesRefunded_KeepsObserved(l, pr, fr) == FetchBalancesEnd(l, pr, fr.total)

\* fetchBalances, after `await refundRemainingBalance`: apiBalance = 0
\* (fr.total is the local apiBalance, the balance the node reported)
FetchBalancesRefunded(l, pr, fr) == FetchBalancesEnd(l, pr, 0)

\* RoutstrClient.getBalance, up to `await fetchBalances`
GetBalance(l, pr) == FetchBalances(l, Push(pr, Frame("gb", "", 0)))

\* Faulty variant: the total is left in millisats.
GetBalanceFetched_TotalInMsats(l, pr, b) ==
  Return(l, pr, BalanceRes(b.api \div 1000, b.proofs \div 1000, b.api + b.proofs))

\* RoutstrClient.getBalance, the conversion to sats
GetBalanceFetched(l, pr, b) ==
  Return(l, pr, BalanceRes(b.api \div 1000, b.proofs \div 1000,
                           (b.api + b.proofs) \div 1000))

\* chatCompletion, up to `await this.getBalance()`
ChatCompletion(l, pr, model) ==
  IF model \notin DOMAIN ModelCost2 THEN Return(l, pr, Throw("InvalidModelError"))
  ELSE GetBalance(l, Push(pr, Frame("cc_balance", model, 0)))

\* Faulty variant: the balance is not compared with the price.
ChatCompletionBalance_SkipsCheck(l, pr, fr, balance) ==
  GetOrCreateApiToken(l, Push(pr, Frame("cc_token", fr.model, balance.total)),
                      ModelCost2[fr.model])

\* chatCompletion, the balance check and `await getOrCreateApiToken`
ChatCompletionBalance(l, pr, fr, balance) ==
  IF balance.total * 2 < ModelCost2[fr.model]
  THEN Return(l, pr, Throw("InsufficientBalanceError"))
  ELSE GetOrCreateApiToken(l, Push(pr, Frame("cc_token", fr.model, balance.total)),
                           ModelCost2[fr.model])

\* Faulty variant: a missing token is reported as a network failure.
ChatCompletionToken_WrongError(l, pr, fr, token) ==
  IF token.tag # "token"
  THEN Return(l, pr, Throw("NetworkError"))
  ELSE Step(l, Await(Push(pr, Frame("cc_fetch", fr.model, fr.total)),
                     "cc_fetch", token.tok, <<>>, 0))

\* chatCompletion, the token check and `await fetch(.../v1/chat/completions)`
ChatCompletionToken(l, pr, fr, token) ==
  IF token.tag # "token"
  THEN Return(l, pr, Throw("TokenGenerationError"))
  ELSE Step(l, Await(Push(pr, Frame("cc_fetch", fr.model, fr.total)),
                     "cc_fetch", token.tok, <<>>, 0))

\* Faulty variant: only status 401 invalidates the token.
ChatCompletionFetched_KeepsTokenOn403(l, pr, o, body) ==
  LET fr == Head(pr.stack)
      q  == [Running(pr) EXCEPT !.stack = Tail(@)]
  IN IF o.status = 0 THEN Return(l, q, Throw("NetworkError"))
     ELSE IF o.status # 200
     THEN Return(IF o.status = 401 THEN InvalidateApiToken(l) ELSE l,
                 q, HandleHttpError(o.status))
     ELSE IF ~body THEN Return(l, q, Throw("NetworkError"))
     ELSE RefundRemainingBalance(l, Push(q, Frame("cc_refund", fr.model, fr.total)),
                                 Absent(NoToken))

\* Faulty variant: status 402 invalidates the token as 401 and 403 do.
ChatCompletionFetched_InvalidatesOn402(l, pr, o, body) ==
  LET fr == Head(pr.stack)
      q  == [Running(pr) EXCEPT !.stack = Tail(@)]
  IN IF o.status = 0 THEN Return(l, q, Throw("NetworkError"))
     ELSE IF o.status # 200
     THEN Return(IF o.status \in {401, 402, 403} THEN InvalidateApiToken(l) ELSE l,
                 q, HandleHttpError(o.status))
     ELSE IF ~body THEN Return(l, q, Throw("NetworkError"))
     ELSE RefundRemainingBalance(l, Push(q, Frame("cc_refund", fr.model, fr.total)),
                                 Absent(NoToken))

\* chatCompletion, from the node's answer to `await refundRemainingBalance`;
\* body tells whether `response.json()` yields a value or throws
ChatCompletionFetched(l, pr, o, body) ==
  LET fr == Head(pr.stack)
      q  == [Running(pr) EXCEPT !.stack = Tail(@)]
  IN IF o.status = 0 THEN Return(l, q, Throw("NetworkError"))
     ELSE IF o.status # 200
     THEN Return(IF o.status \in {401, 403} THEN InvalidateApiToken(l) ELSE l,
                 q, HandleHttpError(o.status))
     ELSE IF ~body THEN Return(l, q, Throw("NetworkError"))
     ELSE RefundRemainingBalance(l, Push(q, Frame("cc_refund", fr.model, fr.total)),
                                 Absent(NoToken))

\* chatCompletion, after the refund: addTransaction and return
ChatCompletionRefunded(l, pr, fr) ==
  Return(AddTransaction(l, [type |-> "spent", amount2 |-> ModelCost2[fr.model],
                            timestamp |-> Len(GetTransactionHistory(l)) + 1,
                            status |-> "success", model |-> fr.model,
                            balance2 |-> fr.total * 2 - ModelCost2[fr.model]]),
         pr, Res("value", "response", ""))

\* streamChatCompletion, up to `await this.getBalance()`
StreamChatCompletion(l, pr, model) ==
  IF model \notin DOMAIN ModelCost2 THEN Return(l, pr, Throw("InvalidModelError"))
  ELSE GetBalance(l, Push(pr, Frame("sc_balance", model, 0)))

\* streamChatCompletion, the balance check and `await getOrCreateApiToken`
StreamChatCompletionBalance(l, pr, fr, balance) ==
  IF balance.total * 2 < ModelCost2[fr.model]
  THEN Return(l, pr, Throw("InsufficientBalanceError"))
  ELSE GetOrCreateApiToken(l, Push(pr, Frame("sc_token", fr.model, balance.total)),
                           ModelCost2[fr.model])

\* streamChatCompletion, the token check and `await fetch(.../v1/chat/completions)`
StreamChatCompletionToken(l, pr, fr, token) ==
  IF token.tag # "token"
  THEN Return(l, pr, Throw("TokenGenerationError"))
  ELSE Step(l, Await(Push(pr, Frame("sc_fetch", fr.model, fr.total)),
                     "sc_fetch", token.tok, <<>>, 0))

\* Faulty variant: the token is cleared on every failing status.
StreamChatCompletionFetched_ClearsOnError(l, pr, o, body) ==
  LET q == [Running(pr) EXCEPT !.stack = Tail(@)]
  IN IF o.status = 0 THEN Return(l, q, Throw("NetworkError"))
     ELSE IF o.status # 200
     THEN Return(InvalidateApiToken(l), q, HandleHttpError(o.status))
     ELSE IF ~body THEN Return(l, q, Throw("NetworkError"))
     ELSE Step(l, Await(pr, "sc_read", pr.tok, <<>>, 0))

\* streamChatCompletion, from the node's answer to the first `reader.read()`
StreamChatCompletionFetched(l, pr, o, body) ==
  LET q == [Running(pr) EXCEPT !.stack = Tail(@)]
  IN IF o.status = 0 THEN Return(l, q, Throw("NetworkError"))
     ELSE IF o.status # 200
     THEN Return(IF o.status \in {401, 403} THEN InvalidateApiToken(l) ELSE l,
                 q, HandleHttpError(o.status))
     ELSE IF ~body THEN Return(l, q, Throw("NetworkError"))
     ELSE Step(l, Await(pr, "sc_read", pr.tok, <<>>, 0))

\* streamChatCompletion, the read loop: the stream ends, or a read throws
\* (onError is called and the error is rethrown as a NetworkError)
StreamChatCompletionRead(l, pr, kind) ==
  LET fr == Head(pr.stack)
      q  == [Running(pr) EXCEPT !.stack = Tail(@)]
  IN IF kind # "done" THEN Return(l, q, Throw("NetworkError"))
     ELSE RefundRemainingBalance(l, Push(q, Frame("sc_refund", fr.model, fr.total)),
                                 Absent(NoToken))

\* streamChatCompletion, after the refund: addTransaction and return
StreamChatCompletionRefunded(l, pr, fr) ==
  Return(AddTransaction(l, [type |-> "spent", amount2 |-> ModelCost2[fr.model],
                            timestamp |-> Len(GetTransactionHistory(l)) + 1,
                            status |-> "success", model |-> fr.model,
                            balance2 |-> fr.total * 2 - ModelCost2[fr.model]]),
         pr, Res("value", "void", ""))

Return(l, pr, v) ==
  IF pr.stack = <<>>
  THEN Step(l, [IdleProc EXCEPT !.op = pr.op, !.result = v])
  ELSE LET fr == Head(pr.stack)
           q  == [pr EXCEPT !.stack = Tail(@)]
       IN CASE fr.f = "goc" -> GetOrCreateApiTokenGenerated(l, q, v)
            [] fr.f = "fb_refund" -> FetchBalancesRefunded(l, q, fr)
            [] fr.f = "gb" -> GetBalanceFetched(l, q, v)
            [] fr.f = "cc_balance" -> ChatCompletionBalance(l, q, fr, v)
            [] fr.f = "cc_token" -> ChatCompletionToken(l, q, fr, v)
            [] fr.f = "cc_refund" -> ChatCompletionRefunded(l, q, fr)
            [] fr.f = "sc_balance" -> StreamChatCompletionBalance(l, q, fr, v)
            [] fr.f = "sc_token" -> StreamChatCompletionToken(l, q, fr, v)
            [] fr.f = "sc_refund" -> StreamChatCompletionRefunded(l, q, fr)

\* ------------------------------------------------------------------ actions
Init ==
  /\ ls = [proofs |-> Absent(<<>>), token |-> Absent(NoToken),
           history |-> Absent(<<>>), wrapped |-> Absent(<<>>)]
  /\ env = [spent |-> {}, next |-> FirstFreshSecret, acct |-> <<>>,
            consumed |-> 0, imported |-> 0, quotes |-> <<>>]
  /\ proc = [p \in Procs |-> IdleProc]
  /\ act = [name |-> "Init", p |-> "none", status |-> -1, kind |-> ""]

Idle(p) == proc[p].pc = "idle"
Called(p, op) == [IdleProc EXCEPT !.pc = "run", !.op = op]

\* The step s of caller p, labelled.
Take(p, name, status, kind, s, e) ==
  /\ ls' = s.ls
  /\ proc' = [proc EXCEPT ![p] = s.pr]
  /\ env' = e
  /\ act' = [name |-> name, p |-> p, status |-> status, kind |-> kind]

CallGetOrCreate(p) ==
  \E a2 \in Amounts2 :
    /\ Idle(p)
    /\ Take(p, "CallGetOrCreate", -1, "",
            GetOrCreateApiToken(ls, Called(p, "getOrCreate"), a2), env)

SendAnswered(p) ==
  /\ proc[p].pc = "gen_mint"
  /\ \E o \in MintSendOutcomes(env, proc[p].amt, proc[p].rd) :
       Take(p, "SendAnswered", -1, o.kind, GenerateApiTokenSent(ls, proc[p], o), o.env)

CallRefund(p) ==
  /\ Idle(p)
  /\ Take(p, "CallRefund", -1, "",
          RefundRemainingBalance(ls, Called(p, "refund"), Absent(NoToken)), env)

RefundAnswered(p) ==
  /\ proc[p].pc = "rf_fetch"
  /\ \E o \in RefundOutcomes(env, proc[p].tok) :
       Take(p, "RefundAnswered", o.status, "", RefundFetched(ls, proc[p], o), o.env)

RefundReceiveAnswered(p) ==
  /\ proc[p].pc = "rf_mint"
  /\ \E o \in MintReceiveOutcomes(env, proc[p].tok) :
       Take(p, "RefundReceiveAnswered", -1, o.kind,
            RefundReceived(ls, proc[p], o), o.env)

CallImportToken(p) ==
  \E t \in ExtTokens :
    /\ Idle(p)
    /\ Take(p, "CallImportToken", -1, "",
            Step(ls, Await(Called(p, "importToken"), "imp_mint", t, <<>>, 0)), env)

ImportReceiveAnswered(p) ==
  /\ proc[p].pc = "imp_mint"
  /\ \E o \in MintReceiveOutcomes(env, proc[p].tok) :
       Take(p, "ImportReceiveAnswered", -1, o.kind,
            ImportReceived(ls, proc[p], o),
            [o.env EXCEPT !.imported = @ + SumProofs(o.proofs)])

CallGetBalance(p) ==
  /\ Idle(p)
  /\ Take(p, "CallGetBalance", -1, "", GetBalance(ls, Called(p, "getBalance")), env)

WalletAnswered(p) ==
  /\ proc[p].pc = "fb_fetch"
  /\ \E o \in WalletOutcomes(env, proc[p].tok) :
       Take(p, "WalletAnswered", o.status, "",
            FetchBalancesFetched(ls, proc[p], o), o.env)

CallChatCompletion(p) ==
  \E m \in ModelIds :
    /\ Idle(p)
    /\ Len(GetTransactionHistory(ls)) < MaxHistory
    /\ Take(p, "CallChatCompletion", -1, m,
            ChatCompletion(ls, Called(p, "chatCompletion"), m), env)

CompletionAnswered(p) ==
  /\ proc[p].pc = "cc_fetch"
  /\ \E o \in CompletionOutcomes(env, proc[p].tok, ModelCost2[Head(proc[p].stack).model]) :
       \E body \in (IF o.status = 200 THEN BOOLEAN ELSE {TRUE}) :
         Take(p, "CompletionAnswered", o.status, IF body THEN "" ELSE "nobody",
              ChatCompletionFetched(ls, proc[p], o, body), o.env)

CallStreamChatCompletion(p) ==
  \E m \in ModelIds :
    /\ Idle(p)
    /\ Len(GetTransactionHistory(ls)) < MaxHistory
    /\ Take(p, "CallStreamChatCompletion", -1, m,
            StreamChatCompletion(ls, Called(p, "streamChatCompletion"), m), env)

StreamCompletionAnswered(p) ==
  /\ proc[p].pc = "sc_fetch"
  /\ \E o \in CompletionOutcomes(env, proc[p].tok, ModelCost2[Head(proc[p].stack).model]) :
       \E body \in (IF o.status = 200 THEN BOOLEAN ELSE {TRUE}) :
         Take(p, "StreamCompletionAnswered", o.status, IF body THEN "" ELSE "nobody",
              StreamChatCompletionFetched(ls, proc[p], o, body), o.env)

StreamReadAnswered(p) ==
  /\ proc[p].pc = "sc_read"
  /\ \E kind \in {"done", "error"} :
       Take(p, "StreamReadAnswered", -1, kind,
            StreamChatCompletionRead(ls, proc[p], kind), env)

Next ==
  \/ CallGetOrCreate(Main)
  \/ SendAnswered(Main)
  \/ CallRefund(Main)
  \/ RefundAnswered(Main)
  \/ RefundReceiveAnswered(Main)
  \/ CallImportToken(Main)
  \/ ImportReceiveAnswered(Main)
  \/ CallGetBalance(Main)
  \/ WalletAnswered(Main)
  \/ CallChatCompletion(Main)
  \/ CompletionAnswered(Main)
  \/ CallStreamChatCompletion(Main)
  \/ StreamCompletionAnswered(Main)
  \/ StreamReadAnswered(Main)

Spec == Init /\ [][Next]_vars

\* The same, with callers that go on calling and answers that go on coming:
\* a call that can be made or an answer that is due is not put off forever.
SpecFair == Spec /\ WF_vars(Next)

\* Two callers whose calls interleave at their awaits: a step runs one caller
\* from the answer it waited for to its next await, and no two steps overlap.
NextOf(p) ==
  \/ CallGetOrCreate(p)
  \/ SendAnswered(p)
  \/ CallRefund(p)
  \/ RefundAnswered(p)
  \/ RefundReceiveAnswered(p)
  \/ CallImportToken(p)
  \/ ImportReceiveAnswered(p)
  \/ CallGetBalance(p)
  \/ WalletAnswered(p)
  \/ CallChatCompletion(p)
  \/ CompletionAnswered(p)
  \/ CallStreamChatCompletion(p)
  \/ StreamCompletionAnswered(p)
  \/ StreamReadAnswered(p)

\* A call is started only while the mint has issued few secrets, and the
\* second caller starts its calls while the first has one in flight (two
\* calls one after the other are what Spec covers).
MayCall(p) ==
  /\ env.next <= MaxConcurrentSecret
  /\ p # Main => ~Idle(Main)

WalletOf(p) ==
  \/ CallGetOrCreate(p)
  \/ SendAnswered(p)
  \/ CallRefund(p)
  \/ RefundAnswered(p)
  \/ RefundReceiveAnswered(p)
  \/ CallImportToken(p)
  \/ ImportReceiveAnswered(p)
  \/ CallGetBalance(p)
  \/ WalletAnswered(p)

NextConcurrent ==
  \/ (Idle(Main) => MayCall(Main)) /\ NextOf(Main)
  \/ (Idle("other") => MayCall("other")) /\ WalletOf("other")

SpecConcurrent == Init /\ [][NextConcurrent]_vars

\* The wallet calls that write the proofs, racing: both callers split, refund
\* and import, and calls are started for one more secret than above, so that
\* two splits can start from a store of two proofs.
RaceOf(p) ==
  \/ CallGetOrCreate(p)
  \/ SendAnswered(p)
  \/ CallRefund(p)
  \/ RefundAnswered(p)
  \/ RefundReceiveAnswered(p)
  \/ CallImportToken(p)
  \/ ImportReceiveAnswered(p)

MayRace(p) ==
  /\ env.next <= MaxConcurrentSecret + 1
  /\ p # Main => ~Idle(Main)

NextRace ==
  \/ (Idle(Main) => MayRace(Main)) /\ RaceOf(Main)
  \/ (Idle("other") => MayRace("other")) /\ RaceOf("other")

SpecRace == Init /\ [][NextRace]_vars

\* refundRemainingBalance called with its optional third argument: a token
\* the caller holds, or the cached one.  The call is labelled by whether the
\* argument is the cached token.
CallRefundToken(p) ==
  \E t \in ExtTokens \cup (IF ls.token.present THEN {ls.token.val} ELSE {}) :
    /\ Idle(p)
    /\ Take(p, "CallRefundToken", -1, "",
            RefundRemainingBalance(
              ls, Called(p, IF Stored(t) = ls.token THEN "refundCached"
                                                    ELSE "refundOther"),
              Stored(t)), env)

\* The wallet functions of cashu.ts called directly, one call at a time.
NextRefundToken ==
  \/ WalletOf(Main)
  \/ CallRefundToken(Main)

SpecRefundToken == Init /\ [][NextRefundToken]_vars


\* -------------------------------------------------------------- gift wrap
\* Private keys: the client's own (this.privateKey) and a correspondent's.
ClientKey == "client"
PrivateKeys == {ClientKey, "bob"}

GetPublicKeyFromPrivateKey(privateKey) ==
  IF privateKey = ClientKey THEN "pub_client" ELSE "pub_bob"

\* Strings that are public keys; any other string makes the cipher throw.
Pubkeys == {GetPublicKeyFromPrivateKey(k) : k \in PrivateKeys}

\* What a call inside a try block gives: a value, or an exception.
Returned(v) == [raised |-> FALSE, val |-> v]
Raised(v) == [raised |-> TRUE, val |-> v]

\* JSON text: of an object (its members, undefined ones left out), of null,
\* or no JSON at all.
JsonText(json, members) == [json |-> json, members |-> members]
NoText == JsonText("invalid", {})

\* Faulty variant: an undefined note is written as the empty string.
JsonStringify_WritesUndefined(token, note) ==
  JsonText("object",
           {[key |-> "token", tok |-> token, str |-> ""],
            [key |-> "note", tok |-> NoToken, str |-> note.val]})

\* JSON.stringify({ token, note })
JsonStringify(token, note) ==
  JsonText("object",
           {[key |-> "token", tok |-> token, str |-> ""]}
             \cup (IF note.present
                   THEN {[key |-> "note", tok |-> NoToken, str |-> note.val]}
                   ELSE {}))

JsonParse(text) ==
  IF text.json = "invalid" THEN Raised(text) ELSE Returned(text)

HasMember(value, key) == \E m \in value.members : m.key = key
Member(value, key) == CHOOSE m \in value.members : m.key = key

\* nip04: the key of the cipher is the ECDH secret of the two parties, the
\* same from either side.
SharedSecret(privateKey, pubkey) ==
  {GetPublicKeyFromPrivateKey(privateKey), pubkey}

Cipher(key, text) == [key |-> key, text |-> text]
\* Content that is no ciphertext.
NoCipher == Cipher({}, NoText)

Nip04Encrypt(privateKey, pubkey, text) ==
  IF pubkey \notin Pubkeys THEN Raised(NoCipher)
  ELSE Returned(Cipher(SharedSecret(privateKey, pubkey), text))

Nip04Decrypt(privateKey, pubkey, content) ==
  IF pubkey \notin Pubkeys \/ content.key # SharedSecret(privateKey, pubkey)
  THEN Raised(NoText)
  ELSE Returned(content.text)

\* getEventHash: a hash of these fields, taken as injective.
GetEventHash(pubkey, created_at, kind, tags, content) ==
  [pubkey |-> pubkey, created_at |-> created_at, kind |-> kind,
   tags |-> tags, content |-> content]

NoId == GetEventHash("", 0, 0, Absent(<<>>), NoCipher)

Signature(privateKey, id) ==
  [signer |-> GetPublicKeyFromPrivateKey(privateKey), id |-> id]

\* An event; tags is absent in an object that has no tags array.
Event(kind, pubkey, created_at, tags, content, id, sig) ==
  [kind |-> kind, pubkey |-> pubkey, created_at |-> created_at,
   tags |-> tags, content |-> content, id |-> id, sig |-> sig]

NoEvent == Event(0, "", 0, Absent(<<>>), NoCipher, NoId, [signer |-> "", id |-> NoId])

\* finalizeEvent: pubkey, id and sig set from the key
FinalizeEvent(kind, created_at, tags, content, privateKey) ==
  LET pubkey == GetPublicKeyFromPrivateKey(privateKey)
      id == GetEventHash(pubkey, created_at, kind, tags, content)
  IN Event(kind, pubkey, created_at, tags, content, id, Signature(privateKey, id))

\* wrapCashuToken of nip60.ts, at time now (ms); throws when the cipher does
WrapCashuToken(token, recipientPubkey, senderPrivateKey, note, now) ==
  LET encryptedContent ==
        Nip04Encrypt(senderPrivateKey, recipientPubkey, JsonStringify(token, note))
  IN IF encryptedContent.raised THEN Raised(NoEvent)
     ELSE Returned(FinalizeEvent(GIFT_WRAP_KIND, now \div MSATS_PER_SAT,
                                 Stored(<< <<"p", recipientPubkey>>,
                                           <<"gift", "cashu">> >>),
                                 encryptedContent.val, senderPrivateKey))

\* tags.some(tag => tag[0] === name)
HasTag(tags, name) == \E i \in 1..Len(tags) : tags[i][1] = name
\* tags.some(tag => tag[0] === name && tag[1] === value)
HasTagValue(tags, name, value) ==
  \E i \in 1..Len(tags) :
    tags[i][1] = name /\ Len(tags[i]) >= 2 /\ tags[i][2] = value

GiftWrap(token, recipientPubkey, note) ==
  [token |-> token, recipientPubkey |-> recipientPubkey, note |-> note]
NoGift == GiftWrap(Absent(NoToken), "", Absent(""))

\* What unwrapCashuToken gives: the gift or null, and whether the cipher
\* was called on the way.
Unwrapped(gift, decrypts) == [raised |-> FALSE, gift |-> gift, decrypts |-> decrypts]
UnwrapNull(decrypts) == Unwrapped(Absent(NoGift), decrypts)

\* Faulty variant: the `p` tag is not compared with the own public key.
UnwrapCashuToken_AnyRecipient(event, recipientPrivateKey) ==
  LET recipientPubkey == GetPublicKeyFromPrivateKey(recipientPrivateKey)
  IN IF ~event.tags.present THEN UnwrapNull(FALSE)
     ELSE IF ~HasTagValue(event.tags.val, "gift", "cashu") THEN UnwrapNull(FALSE)
     ELSE LET decryptedContent ==
                Nip04Decrypt(recipientPrivateKey, event.pubkey, event.content)
          IN IF decryptedContent.raised THEN UnwrapNull(TRUE)
             ELSE LET giftContent == JsonParse(decryptedContent.val)
                  IN IF giftContent.raised \/ giftContent.val.json = "null"
                     THEN UnwrapNull(TRUE)
                     ELSE Unwrapped(
                            Stored(GiftWrap(
                              IF HasMember(giftContent.val, "token")
                              THEN Stored(Member(giftContent.val, "token").tok)
                              ELSE Absent(NoToken),
                              recipientPubkey,
                              IF HasMember(giftContent.val, "note")
                              THEN Stored(Member(giftContent.val, "note").str)
                              ELSE Absent(""))),
                            TRUE)

\* Faulty variant: no try block, an exception leaves the function.
UnwrapCashuToken_NoCatch(event, recipientPrivateKey) ==
  LET recipientPubkey == GetPublicKeyFromPrivateKey(recipientPrivateKey)
  IN IF ~event.tags.present THEN [UnwrapNull(FALSE) EXCEPT !.raised = TRUE]
     ELSE IF ~HasTagValue(event.tags.val, "p", recipientPubkey) THEN UnwrapNull(FALSE)
     ELSE IF ~HasTagValue(event.tags.val, "gift", "cashu") THEN UnwrapNull(FALSE)
     ELSE LET decryptedContent ==
                Nip04Decrypt(recipientPrivateKey, event.pubkey, event.content)
          IN IF decryptedContent.raised THEN [UnwrapNull(TRUE) EXCEPT !.raised = TRUE]
             ELSE LET giftContent == JsonParse(decryptedContent.val)
                  IN IF giftContent.raised \/ giftContent.val.json = "null"
                     THEN [UnwrapNull(TRUE) EXCEPT !.raised = TRUE]
                     ELSE Unwrapped(
                            Stored(GiftWrap(
                              IF HasMember(giftContent.val, "token")
                              THEN Stored(Member(giftContent.val, "token").tok)
                              ELSE Absent(NoToken),
                              recipientPubkey,
                              IF HasMember(giftContent.val, "note")
                              THEN Stored(Member(giftContent.val, "note").str)
                              ELSE Absent(""))),
                            TRUE)

\* unwrapCashuToken of nip60.ts: every exception inside is caught and gives
\* null (reading tags of an object without tags, the cipher, JSON.parse,
\* reading a member of null).
UnwrapCashuToken(event, recipientPrivateKey) ==
  LET recipientPubkey == GetPublicKeyFromPrivateKey(recipientPrivateKey)
  IN IF ~event.tags.present THEN UnwrapNull(FALSE)
     ELSE IF ~HasTagValue(event.tags.val, "p", recipientPubkey) THEN UnwrapNull(FALSE)
     ELSE IF ~HasTagValue(event.tags.val, "gift", "cashu") THEN UnwrapNull(FALSE)
     ELSE LET decryptedContent ==
                Nip04Decrypt(recipientPrivateKey, event.pubkey, event.content)
          IN IF decryptedContent.raised THEN UnwrapNull(TRUE)
             ELSE LET giftContent == JsonParse(decryptedContent.val)
                  IN IF giftContent.raised \/ giftContent.val.json = "null"
                     THEN UnwrapNull(TRUE)
                     ELSE Unwrapped(
                            Stored(GiftWrap(
                              IF HasMember(giftContent.val, "token")
                              THEN Stored(Member(giftContent.val, "token").tok)
                              ELSE Absent(NoToken),
                              recipientPubkey,
                              IF HasMember(giftContent.val, "note")
                              THEN Stored(Member(giftContent.val, "note").str)
                              ELSE Absent(""))),
                            TRUE)

\* Faulty variant: the `p` tag has to name the client.
IsValidCashuGiftWrap_ChecksRecipient(event) ==
  IF event.kind # GIFT_WRAP_KIND THEN Returned(FALSE)
  ELSE IF ~event.tags.present THEN Raised(FALSE)
  ELSE Returned(/\ HasTagValue(event.tags.val, "p",
                               GetPublicKeyFromPrivateKey(ClientKey))
                /\ HasTagValue(event.tags.val, "gift", "cashu"))

\* isValidCashuGiftWrap; it has no try block, so reading the tags of an
\* object without tags throws
IsValidCashuGiftWrap(event) ==
  IF event.kind # GIFT_WRAP_KIND THEN Returned(FALSE)
  ELSE IF ~event.tags.present THEN Raised(FALSE)
  ELSE Returned(/\ HasTag(event.tags.val, "p")
                /\ HasTagValue(event.tags.val, "gift", "cashu"))

GetStoredWrappedTokens(l) == IF l.wrapped.present THEN l.wrapped.val ELSE <<>>

\* Faulty variant: the new event is put first.
StoreWrappedToken_Prepends(l, wrappedToken) ==
  [l EXCEPT !.wrapped = Stored(<<wrappedToken>> \o GetStoredWrappedTokens(l))]

StoreWrappedToken(l, wrappedToken) ==
  [l EXCEPT !.wrapped = Stored(Append(GetStoredWrappedTokens(l), wrappedToken))]

RECURSIVE FilterOutId(_, _)
\* tokens.filter(token => token.id !== tokenId)
FilterOutId(tokens, tokenId) ==
  IF tokens = <<>> THEN <<>>
  ELSE (IF Head(tokens).id # tokenId THEN <<Head(tokens)>> ELSE <<>>)
         \o FilterOutId(Tail(tokens), tokenId)

RECURSIVE DropFirstId(_, _)
DropFirstId(tokens, tokenId) ==
  IF tokens = <<>> THEN <<>>
  ELSE IF Head(tokens).id = tokenId THEN Tail(tokens)
  ELSE <<Head(tokens)>> \o DropFirstId(Tail(tokens), tokenId)

\* Faulty variant: only the first entry with the id is removed.
RemoveWrappedToken_FirstOnly(l, tokenId) ==
  [l EXCEPT !.wrapped = Stored(DropFirstId(GetStoredWrappedTokens(l), tokenId))]

RemoveWrappedToken(l, tokenId) ==
  [l EXCEPT !.wrapped = Stored(FilterOutId(GetStoredWrappedTokens(l), tokenId))]

\* What a gift operation was called with, and what it gave.
GiftArgs(token, recipientPubkey, note, event, key) ==
  [token |-> token, recipientPubkey |-> recipientPubkey, note |-> note,
   event |-> event, key |-> key]
GiftRes(kind, tag, msg, event, gift, flag, decrypts, list, args) ==
  [kind |-> kind, tag |-> tag, msg |-> msg, event |-> event, gift |-> gift,
   flag |-> flag, decrypts |-> decrypts, list |-> list, args |-> args]

\* Faulty variant: the exception of the wrap is not caught.
ClientWrapCashuToken_NoCatch(l, token, recipientPubkey, note, now) ==
  LET event == WrapCashuToken(token, recipientPubkey, ClientKey, note, now)
      args == GiftArgs(token, recipientPubkey, note, NoEvent, ClientKey)
  IN IF event.raised
     THEN [ls |-> l,
           res |-> GiftRes("throw", "Error", "", NoEvent, Absent(NoGift),
                           FALSE, FALSE, <<>>, args)]
     ELSE [ls |-> StoreWrappedToken(l, event.val),
           res |-> GiftRes("value", "success", "Token wrapped successfully",
                           event.val, Absent(NoGift), FALSE, FALSE, <<>>, args)]

\* RoutstrClient.wrapCashuToken
ClientWrapCashuToken(l, token, recipientPubkey, note, now) ==
  LET event == WrapCashuToken(token, recipientPubkey, ClientKey, note, now)
      args == GiftArgs(token, recipientPubkey, note, NoEvent, ClientKey)
  IN IF event.raised
     THEN [ls |-> l,
           res |-> GiftRes("value", "failure", "Failed to wrap token", NoEvent,
                           Absent(NoGift), FALSE, FALSE, <<>>, args)]
     ELSE [ls |-> StoreWrappedToken(l, event.val),
           res |-> GiftRes("value", "success", "Token wrapped successfully",
                           event.val, Absent(NoGift), FALSE, FALSE, <<>>, args)]

\* RoutstrClient.unwrapCashuToken
ClientUnwrapCashuToken(l, event) ==
  LET args == GiftArgs(NoToken, "", Absent(""), event, ClientKey)
      failure(msg, decrypts) ==
        [ls |-> l,
         res |-> GiftRes("value", "failure", msg, NoEvent, Absent(NoGift),
                         FALSE, decrypts, <<>>, args)]
      valid == IsValidCashuGiftWrap(event)
  IN IF valid.raised THEN failure("Failed to unwrap token", FALSE)
     ELSE IF ~valid.val THEN failure("Invalid gift wrap event", FALSE)
     ELSE LET gift == UnwrapCashuToken(event, ClientKey)
          IN IF gift.raised THEN failure("Failed to unwrap token", gift.decrypts)
             ELSE IF ~gift.gift.present
             THEN failure("Failed to unwrap token or token not intended for this recipient",
                          gift.decrypts)
             ELSE [ls |-> RemoveWrappedToken(l, event.id),
                   res |-> GiftRes("value", "success", "Token unwrapped successfully",
                                   NoEvent, gift.gift, FALSE, gift.decrypts,
                                   <<>>, args)]

\* Token strings given away, each with or without a note, and recipients
\* (the last is no key).
GiftTokens == {t \in ExtTokens : t.proofs # <<>>}
NoteFor(token) == IF Len(token.proofs) = 1 THEN Stored("hi") ELSE Absent("")
Recipients == Pubkeys \cup {"nokey"}
\* The clock (ms) when an event is built.
ClockMs == {1999}

\* An event as the correspondent wraps it for the client.
Received(token, note) ==
  WrapCashuToken(token, GetPublicKeyFromPrivateKey(ClientKey), "bob", note,
                 CHOOSE now \in ClockMs : TRUE).val

\* A payload other than {token, note}, encrypted for the client.
Forged(text) ==
  FinalizeEvent(GIFT_WRAP_KIND, 1,
                Stored(<< <<"p", GetPublicKeyFromPrivateKey(ClientKey)>>,
                          <<"gift", "cashu">> >>),
                Nip04Encrypt("bob", GetPublicKeyFromPrivateKey(ClientKey), text).val,
                "bob")

\* Events a relay may deliver: gifts for the client, and events that differ
\* from a gift in one respect.
ReceivedEvents ==
  LET g == Received(CHOOSE t \in GiftTokens : Len(t.proofs) = 1, Stored("hi"))
  IN { g,
       Received(CHOOSE t \in GiftTokens : Len(t.proofs) = 2, Absent("")),
       [g EXCEPT !.kind = 1],
       [g EXCEPT !.tags = Stored(<< <<"gift", "cashu">> >>)],
       [g EXCEPT !.tags = Stored(<< <<"p">>, <<"gift", "cashu">> >>)],
       [g EXCEPT !.tags = Stored(<< <<"p", "pub_bob">>, <<"gift", "cashu">> >>)],
       [g EXCEPT !.tags = Stored(<< <<"p", "pub_client">> >>)],
       [g EXCEPT !.tags = Stored(<< <<"p", "pub_client">>, <<"gift", "other">> >>)],
       [g EXCEPT !.tags = Absent(<<>>)],
       [g EXCEPT !.content = NoCipher],
       [g EXCEPT !.pubkey = "pub_client"],
       [g EXCEPT !.sig = [signer |-> "", id |-> NoId]],
       Forged(NoText),
       Forged(JsonText("null", {})),
       Forged(JsonText("object", {})) }

\* Events the client may be handed: delivered ones, and those it has sent.
KnownEvents(l) ==
  ReceivedEvents
    \cup {GetStoredWrappedTokens(l)[i] : i \in 1..Len(GetStoredWrappedTokens(l))}

\* A gift operation has no network await: it runs in one step.
TakeGift(name, l, res) ==
  /\ Idle(Main)
  /\ ls' = l
  /\ proc' = [proc EXCEPT ![Main] = [IdleProc EXCEPT !.op = name, !.result = res]]
  /\ act' = [name |-> name, p |-> Main, status |-> -1, kind |-> res.tag]
  /\ UNCHANGED env

CallWrapCashuToken ==
  \E token \in GiftTokens, recipientPubkey \in Recipients, now \in ClockMs :
    /\ Len(GetStoredWrappedTokens(ls)) < MaxWrapped
    /\ LET s == ClientWrapCashuToken(ls, token, recipientPubkey,
                                     NoteFor(token), now)
       IN TakeGift("wrapCashuToken", s.ls, s.res)

CallUnwrapCashuToken ==
  \E event \in KnownEvents(ls) :
    LET s == ClientUnwrapCashuToken(ls, event)
    IN TakeGift("unwrapCashuToken", s.ls, s.res)

\* the exported unwrapCashuToken, with either key
CallUnwrap ==
  \E event \in KnownEvents(ls), key \in PrivateKeys :
    LET g == UnwrapCashuToken(event, key)
    IN TakeGift("unwrap", ls,
                GiftRes(IF g.raised THEN "throw" ELSE "value",
                        IF g.gift.present THEN "gift" ELSE "null", "", NoEvent,
                        g.gift, FALSE, g.decrypts, <<>>,
                        GiftArgs(NoToken, "", Absent(""), event, key)))

CallIsValidCashuGiftWrap ==
  \E event \in KnownEvents(ls) :
    LET v == IsValidCashuGiftWrap(event)
    IN TakeGift("isValidCashuGiftWrap", ls,
                GiftRes(IF v.raised THEN "throw" ELSE "value",
                        IF v.raised THEN "TypeError" ELSE "boolean", "", NoEvent,
                        Absent(NoGift), v.val, FALSE, <<>>,
                        GiftArgs(NoToken, "", Absent(""), event, ClientKey)))

CallRemoveWrappedToken ==
  \E tokenId \in {event.id : event \in KnownEvents(ls)} :
    TakeGift("removeWrappedToken", RemoveWrappedToken(ls, tokenId),
             GiftRes("value", "void", "", NoEvent, Absent(NoGift), FALSE, FALSE,
                     GetStoredWrappedTokens(ls),
                     GiftArgs(NoToken, "", Absent(""),
                              [NoEvent EXCEPT !.id = tokenId], ClientKey)))

CallGetStoredWrappedTokens ==
  /\ Idle(Main)
  /\ TakeGift("getStoredWrappedTokens", ls,
              GiftRes("value", "list", "", NoEvent, Absent(NoGift), FALSE, FALSE,
                      GetStoredWrappedTokens(ls),
                      GiftArgs(NoToken, "", Absent(""), NoEvent, ClientKey)))

\* A wallet that has been used: proofs, a cached token and a history entry
\* (the state after an import, a paid request and a refund the node did not
\* answer).
UsedStorage ==
  [proofs |-> Stored(<<Proof(4, 1), Proof(7, 1)>>),
   token |-> Stored(EncodeToken(MintUrl, <<Proof(6, 1)>>)),
   history |-> Stored(<<[type |-> "spent", amount2 |-> 2,
                         timestamp |-> 1, status |-> "success",
                         model |-> "m1", balance2 |-> 4]>>),
   wrapped |-> Absent(<<>>)]

\* The mint and the node at that point.
UsedMint ==
  [spent |-> {1, 2, 5, 6}, next |-> 8,
   acct |-> (EncodeToken(MintUrl, <<Proof(6, 1)>>) :> 0),
   consumed |-> MSATS_PER_SAT, imported |-> 3, quotes |-> <<>>]

UsedWallet ==
  /\ ls = UsedStorage
  /\ env = UsedMint
  /\ proc = [p \in Procs |-> IdleProc]
  /\ act = [name |-> "Init", p |-> "none", status |-> -1, kind |-> ""]

InitGift == UsedWallet

NextGift ==
  \/ CallWrapCashuToken
  \/ CallUnwrapCashuToken
  \/ CallUnwrap
  \/ CallIsValidCashuGiftWrap
  \/ CallRemoveWrappedToken
  \/ CallGetStoredWrappedTokens

SpecGift == InitGift /\ [][NextGift]_vars

\* ------------------------------------------------------------ the ledger
\* Length cap of the history when addTransaction is called directly.
MaxLedger == MaxHistory + 2

\* Records a caller may add; the timestamp is the caller's.
Transactions ==
  { [type |-> type, amount2 |-> 2, timestamp |-> timestamp,
     status |-> "success", model |-> "m1", balance2 |-> 4]
      : type \in {"spent", "import", "refund"}, timestamp \in 1..2 }

LedgerRes(tag, record, list) ==
  [kind |-> "value", tag |-> tag, record |-> record, list |-> list]

\* the exported addTransaction
CallAddTransaction ==
  \E transaction \in Transactions :
    /\ Len(GetTransactionHistory(ls)) < MaxLedger
    /\ TakeGift("addTransaction", AddTransaction(ls, transaction),
                LedgerRes("void", transaction, <<>>))

\* RoutstrClient.getTransactionHistory
CallGetTransactionHistory ==
  /\ Idle(Main)
  /\ TakeGift("getTransactionHistory", ls,
              LedgerRes("list", CHOOSE t \in Transactions : TRUE,
                        GetTransactionHistory(ls)))

InitLedger == Init \/ UsedWallet

NextLedger ==
  \/ CallAddTransaction
  \/ CallGetTransactionHistory

SpecLedger == InitLedger /\ [][NextLedger]_vars

\* ----------------------------------------------------------- mint quotes
\* Quotes the mint gives out in one run.
MaxQuotes == MaxHistory + 1

\* MintQuoteState of the mint, in the order a quote goes through them.
QuoteStates == <<"UNPAID", "PAID", "ISSUED">>
QuoteAmounts == {1, 2}

\* wallet.loadMint and wallet.createMintQuote: they throw, or the mint
\* opens an unpaid quote; its id is its place among the quotes.
CreateQuoteOutcomes(e, amount) ==
  { [kind |-> "error", quote |-> 0, state |-> "", env |-> e] }
    \cup { [kind |-> "ok", quote |-> Len(e.quotes) + 1, state |-> QuoteStates[1],
            env |-> [e EXCEPT !.quotes =
                       Append(@, [state |-> QuoteStates[1], amount |-> amount])]]
             : x \in IF Len(e.quotes) < MaxQuotes THEN {1} ELSE {} }

\* wallet.loadMint and wallet.checkMintQuote: they throw (always, for an id
\* the mint does not know), or the mint reports the state of the quote, which
\* the payer or another holder of the quote may have moved on meanwhile.
CheckQuoteOutcomes(e, quoteId) ==
  { [kind |-> "error", quote |-> quoteId, state |-> "", env |-> e] }
    \cup { [kind |-> "ok", quote |-> quoteId, state |-> QuoteStates[i],
            env |-> [e EXCEPT !.quotes[quoteId].state = QuoteStates[i]]]
             : i \in { j \in 1..Len(QuoteStates) :
                         /\ quoteId \in 1..Len(e.quotes)
                         /\ \E k \in 1..j : e.quotes[quoteId].state = QuoteStates[k] } }

QuoteRes(tag, msg, paid, quoteId) ==
  [kind |-> "value", tag |-> tag, msg |-> msg, paid |-> paid, quoteId |-> quoteId]

\* createMintQuote, then createInvoice of the client
CreateInvoiceAnswered(l, pr, o) ==
  IF o.kind = "ok"
  THEN Return(l, pr, QuoteRes("success", "Quote created successfully",
                              Absent(FALSE), o.quote))
  ELSE Return(l, pr, QuoteRes("failure", "Failed to create mint quote",
                              Absent(FALSE), 0))

\* Faulty variant: every state but UNPAID counts as paid.
CheckInvoiceAnswered_PaidUnlessUnpaid(l, pr, o) ==
  IF o.kind = "ok"
  THEN Return(l, pr, QuoteRes("success",
                              IF o.state # "UNPAID" THEN "Quote has been paid"
                              ELSE "Quote not yet paid",
                              Stored(o.state # "UNPAID"), o.quote))
  ELSE Return(l, pr, QuoteRes("failure", "Failed to check mint quote",
                              Absent(FALSE), o.quote))

\* checkMintQuote, which checkInvoice of the client hands on
CheckInvoiceAnswered(l, pr, o) ==
  IF o.kind = "ok"
  THEN Return(l, pr, QuoteRes("success",
                              IF o.state = "PAID" THEN "Quote has been paid"
                              ELSE "Quote not yet paid",
                              Stored(o.state = "PAID"), o.quote))
  ELSE Return(l, pr, QuoteRes("failure", "Failed to check mint quote",
                              Absent(FALSE), o.quote))

CallCreateInvoice(p) ==
  \E amount \in QuoteAmounts :
    /\ Idle(p)
    /\ Take(p, "CallCreateInvoice", -1, "",
            Step(ls, Await(Called(p, "createInvoice"), "mq_create", NoToken,
                           <<>>, amount)), env)

CreateQuoteAnswered(p) ==
  /\ proc[p].pc = "mq_create"
  /\ \E o \in CreateQuoteOutcomes(env, proc[p].amt) :
       Take(p, "CreateQuoteAnswered", -1, o.kind,
            CreateInvoiceAnswered(ls, Running(proc[p]), o), o.env)

CallCheckInvoice(p) ==
  \E quoteId \in 1..(MaxQuotes + 1) :
    /\ Idle(p)
    /\ Take(p, "CallCheckInvoice", -1, "",
            Step(ls, Await(Called(p, "checkInvoice"), "mq_check", NoToken,
                           <<>>, quoteId)), env)

CheckQuoteAnswered(p) ==
  /\ proc[p].pc = "mq_check"
  /\ \E o \in CheckQuoteOutcomes(env, proc[p].amt) :
       Take(p, "CheckQuoteAnswered", -1, IF o.kind = "ok" THEN o.state ELSE o.kind,
            CheckInvoiceAnswered(ls, Running(proc[p]), o), o.env)

NextQuotes ==
  \/ CallCreateInvoice(Main)
  \/ CreateQuoteAnswered(Main)
  \/ CallCheckInvoice(Main)
  \/ CheckQuoteAnswered(Main)

SpecQuotes == UsedWallet /\ [][NextQuotes]_vars

\* ------------------------------------------------------------------- claims
\* The call of the caller that took the last step.
Actor == IF act.p \in Procs THEN proc[act.p] ELSE IdleProc

\* What the client can still recover, in millisats: the stored proofs plus
\* what the node holds under the current token.
Recoverable ==
  SumProofs(StoredProofs(ls)) * MSATS_PER_SAT
  + (IF ls.token.present THEN RemoteBalance(env, ls.token.val) ELSE 0)

\* C1: with one call in flight at a time, whenever no call is in flight the
\* recoverable value (stored proofs plus the node's balance under the current
\* token) is everything that was imported less what the node kept for
\* requests: nothing is lost otherwise.
C1_ValueNeverLost ==
  Idle(Main) => Recoverable + env.consumed >= env.imported * MSATS_PER_SAT

\* C2: while a token is cached, every getOrCreateApiToken call, whatever the
\* amount, returns that token and changes neither localStorage nor the mint
\* (no split is started).
C2_CachedTokenReturned ==
  [][ (ls.token.present /\ act'.name = "CallGetOrCreate")
      => /\ proc'[act'.p].pc = "idle"
         /\ proc'[act'.p].result = TokenRes(ls.token.val)
         /\ ls' = ls
         /\ env' = env ]_vars

C2_Witness ==
  /\ act.name = "CallGetOrCreate"
  /\ ls.token.present
  /\ Actor.result = TokenRes(ls.token.val)
  /\ StoredProofs(ls) # <<>>

\* The token a step hands on: the result of a finished call, or the token the
\* call goes on with.
TokenHandedOn(pr) == IF pr.pc = "idle" THEN pr.result.tok ELSE pr.tok

C4_InsufficientFundsNull ==
  [][ (act'.name = "SendAnswered" /\ act'.kind = "funds")
      => /\ ls' = ls
         /\ env' = env
         /\ proc'[act'.p].pc = "idle"
         /\ proc[act'.p].op = "getOrCreate" => proc'[act'.p].result = Null ]_vars

C4_Witness ==
  /\ act.name = "SendAnswered"
  /\ act.kind = "funds"
  /\ Actor.result = Null
  /\ StoredProofs(ls) # <<>>
  /\ ~ls.token.present

\* What a call gives its caller when the split fails for insufficient funds.
FundsFailure(op) ==
  IF op = "getOrCreate" THEN Null ELSE Throw("TokenGenerationError")

\* C5 as stated: a split failure other than insufficient funds gives the
\* caller a failure it can tell from the one for insufficient funds.
C5_FailureDistinguishable ==
  (act.name = "SendAnswered" /\ act.kind = "error")
    => Actor.result # FundsFailure(Actor.op)

\* C5 as amended: a split failure other than insufficient funds makes
\* getOrCreateApiToken return null, as for insufficient funds, and makes the
\* paid request throw TokenGenerationError; localStorage and the mint are
\* unchanged and no request to the node is started.
C5_SplitFailureSurfaces ==
  [][ (act'.name = "SendAnswered" /\ act'.kind = "error")
      => /\ ls' = ls
         /\ env' = env
         /\ proc'[act'.p].pc = "idle"
         /\ proc'[act'.p].result =
              (IF proc[act'.p].op = "getOrCreate" THEN Null
               ELSE Throw("TokenGenerationError")) ]_vars

C5_Witness ==
  /\ act.name = "SendAnswered"
  /\ act.kind = "error"
  /\ Actor.op = "chatCompletion"
  /\ Actor.result = Throw("TokenGenerationError")
  /\ StoredProofs(ls) # <<>>

\* C6: a getOrCreateApiToken call that finds no cached token and no stored
\* proofs (the key unset, or set to the empty list) returns the
\* hasTokens:false result at once, without calling the mint.
C6_NoFundsResult ==
  (act.name = "CallGetOrCreate" /\ ~ls.token.present /\ StoredProofs(ls) = <<>>)
    => (Actor.pc = "idle" /\ Actor.result = NoTokens)

\* C7: refundRemainingBalance with no cached token returns success at once
\* and changes nothing: no request to the node or the mint, localStorage
\* (proofs, token, history) as before.
C7_RefundWithoutToken ==
  [][ (act'.name = "CallRefund" /\ ~ls.token.present)
      => /\ proc'[act'.p].pc = "idle"
         /\ proc'[act'.p].result.kind = "value"
         /\ proc'[act'.p].result.tag = "success"
         /\ ls' = ls
         /\ env' = env ]_vars

C7_Witness ==
  /\ act.name = "CallRefund"
  /\ ~ls.token.present
  /\ Actor.result = Success("No token to refund")
  /\ StoredProofs(ls) # <<>>

\* The refund call has ended after the node answered its request with 200.
RefundEndedAfterOk ==
  /\ Actor.op = "refund"
  /\ Actor.pc = "idle"
  /\ \/ act.name = "RefundReceiveAnswered"
     \/ act.name = "RefundAnswered" /\ act.status = 200

C9_RefundFailureKeepsToken ==
  [][ (act'.name = "RefundAnswered" /\ act'.status # 200)
      => /\ ls'.proofs = ls.proofs
         /\ ls'.token = Stored(proc[act'.p].tok)
         /\ RemoteBalance(env', ls'.token.val) = RemoteBalance(env, proc[act'.p].tok)
         /\ RefundRemainingBalance(ls', Called(act'.p, "refund"), Absent(NoToken)).pr
              = Await(Called(act'.p, "refund"), "rf_fetch", proc[act'.p].tok, <<>>, 0)
         /\ proc[act'.p].op = "refund"
              => /\ ls' = ls
                 /\ proc'[act'.p].pc = "idle"
                 /\ proc'[act'.p].result.kind = "value"
                 /\ proc'[act'.p].result.tag = "failure" ]_vars

C9_Witness ==
  /\ act.name = "RefundAnswered"
  /\ act.status \in {0, 500}
  /\ Actor.op = "refund"
  /\ Actor.result.tag = "failure"
  /\ ls.token.present
  /\ RemoteBalance(env, ls.token.val) > 0

\* C10: a getBalance call never throws: whenever it ends, on any answer to
\* the wallet query or to the refund it started, it returns a balance; and
\* on an answer to the wallet query other than 200 and 402 the api part is 0
\* and the token stays cached.
C10_GetBalanceNeverThrows ==
  [][ /\ (proc[Main].op = "getBalance" /\ proc[Main].pc # "idle"
            /\ proc'[Main].pc = "idle")
         => /\ proc'[Main].result.kind = "value"
            /\ proc'[Main].result.tag = "balance"
      /\ (act'.name = "WalletAnswered" /\ act'.status \notin {200, 402})
         => /\ ls' = ls
            /\ ls'.token = Stored(proc[act'.p].tok)
            /\ proc[act'.p].op = "getBalance"
                 => /\ proc'[act'.p].pc = "idle"
                    /\ proc'[act'.p].result.api = 0
                    /\ proc'[act'.p].result.total = proc'[act'.p].result.proofs ]_vars

C10_Witness ==
  /\ act.name = "WalletAnswered"
  /\ act.status \in {0, 401, 500}
  /\ Actor.op = "getBalance"
  /\ Actor.result.tag = "balance"
  /\ Actor.result.proofs > 0
  /\ ls.token.present

\* The call is in fetchBalances, waiting for the refund it started: the top
\* frame holds the balance the node reported.
InBalanceRefund(pr) == pr.stack # <<>> /\ Head(pr.stack).f = "fb_refund"

\* C11 as stated: a getBalance call that found the balance b at the node and
\* ran the refund reports floor(b / 1000) sats as its api part.
C11_ReportsObservedBalance ==
  [][ (proc[act'.p].op = "getBalance" /\ InBalanceRefund(proc[act'.p])
         /\ proc'[act'.p].pc = "idle")
      => proc'[act'.p].result.api
           = Head(proc[act'.p].stack).total \div MSATS_PER_SAT ]_vars

\* C11 as amended: when the wallet query reports a balance above zero for the
\* cached token, the refund of that token is started at once, and when the
\* getBalance call returns after that refund, whatever its outcome, the api
\* part is 0 and the total is the proofs part, the sum of the stored proofs.
C11_RefundThenApiZero ==
  [][ /\ (act'.name = "WalletAnswered" /\ act'.status = 200
            /\ RemoteBalance(env', proc[act'.p].tok) > 0)
         => /\ proc'[act'.p].pc = "rf_fetch"
            /\ proc'[act'.p].tok = proc[act'.p].tok
            /\ Head(proc'[act'.p].stack)
                 = Frame("fb_refund", "", RemoteBalance(env', proc[act'.p].tok))
            /\ ls' = ls
      /\ (proc[act'.p].op = "getBalance" /\ InBalanceRefund(proc[act'.p])
            /\ proc'[act'.p].pc = "idle")
         => /\ proc'[act'.p].result.tag = "balance"
            /\ proc'[act'.p].result.api = 0
            /\ proc'[act'.p].result.proofs = SumProofs(StoredProofs(ls'))
            /\ proc'[act'.p].result.total = proc'[act'.p].result.proofs ]_vars

C11_Witness ==
  /\ act.name = "RefundReceiveAnswered"
  /\ act.kind = "ok"
  /\ Actor.op = "getBalance"
  /\ Actor.pc = "idle"
  /\ Actor.result.api = 0
  /\ Actor.result.proofs >= 2

\* C12 as stated: when a getBalance call returns after the refund it started
\* for a balance found at the node, no token is cached and the node holds no
\* balance.
C12_AlwaysReconciled ==
  ( /\ Actor.op = "getBalance"
    /\ Actor.pc = "idle"
    /\ act.name \in {"RefundAnswered", "RefundReceiveAnswered"} )
  => /\ ~ls.token.present
     /\ \A t \in DOMAIN env.acct : env.acct[t] = 0

\* C12 as amended: for the refund that fetchBalances starts on a balance b,
\* (a) if the refund request fails, proofs and token are as before and the
\* node still holds b under the token; (b) if the node answers 200, the
\* account is closed, and with b below one sat the proofs are unchanged and
\* the token is cleared, else the mint is asked to redeem a token worth
\* floor(b / 1000) sats; (c) if the mint redeems it, proofs worth
\* floor(b / 1000) sats are appended to the stored ones and the token is
\* cleared; (d) if the mint call fails, proofs and token are as before.
C12_ReconciledWhenRefundSucceeds ==
  [][ ( /\ InBalanceRefund(proc[act'.p])
        /\ act'.name \in {"RefundAnswered", "RefundReceiveAnswered"} )
      => LET pr == proc[act'.p]
             b  == Head(pr.stack).total
             old == StoredProofs(ls)
             new == StoredProofs(ls')
         IN /\ (act'.name = "RefundAnswered" /\ act'.status # 200)
               => /\ ls'.proofs = ls.proofs
                  /\ ls'.token = ls.token
                  /\ ls.token = Stored(pr.tok)
                  /\ RemoteBalance(env', pr.tok) = b
            /\ (act'.name = "RefundAnswered" /\ act'.status = 200)
               => /\ ~Live(env', pr.tok)
                  /\ IF b < MSATS_PER_SAT
                     THEN ls'.proofs = ls.proofs /\ ~ls'.token.present
                     ELSE /\ proc'[act'.p].pc = "rf_mint"
                          /\ SumProofs(proc'[act'.p].tok.proofs) = b \div MSATS_PER_SAT
                          /\ ls' = ls
            /\ (act'.name = "RefundReceiveAnswered" /\ act'.kind = "ok")
               => /\ Len(new) > Len(old)
                  /\ SubSeq(new, 1, Len(old)) = old
                  /\ SumProofs(new) = SumProofs(old) + b \div MSATS_PER_SAT
                  /\ ~ls'.token.present
                  /\ ~Live(env', ls.token.val)
            /\ (act'.name = "RefundReceiveAnswered" /\ act'.kind # "ok")
               => /\ ls'.proofs = ls.proofs
                  /\ ls'.token = ls.token ]_vars

C12_Witness ==
  /\ act.name = "RefundReceiveAnswered"
  /\ act.kind = "ok"
  /\ Actor.op = "getBalance"
  /\ Actor.pc = "idle"
  /\ ~ls.token.present
  /\ Len(StoredProofs(ls)) >= 2
  /\ env.acct = <<>>

\* C13: the total a getBalance call returned, in millisats, is at most the
\* sum of the stored proofs plus what the node holds under the cached token.
C13_NeverOvercounts ==
  (Idle(Main) /\ proc[Main].op = "getBalance" /\ proc[Main].result.tag = "balance")
    => proc[Main].result.total * MSATS_PER_SAT <= Recoverable

C13_Witness ==
  /\ Idle(Main)
  /\ proc[Main].op = "getBalance"
  /\ proc[Main].result.tag = "balance"
  /\ proc[Main].result.total > 0
  /\ ls.token.present
  /\ RemoteBalance(env, ls.token.val) >= MSATS_PER_SAT
  /\ proc[Main].result.total * MSATS_PER_SAT < Recoverable

\* C14: when the wallet query for the cached token is answered 402, the
\* token is cleared, proofs and history are as before, and a getBalance call
\* returns (does not throw) a balance whose api part is 0.
C14_PaymentRequiredClearsToken ==
  [][ (act'.name = "WalletAnswered" /\ act'.status = 402)
      => /\ ls.token = Stored(proc[act'.p].tok)
         /\ ~ls'.token.present
         /\ ls'.proofs = ls.proofs
         /\ ls'.history = ls.history
         /\ proc[act'.p].op = "getBalance"
              => /\ proc'[act'.p].pc = "idle"
                 /\ proc'[act'.p].result.kind = "value"
                 /\ proc'[act'.p].result.tag = "balance"
                 /\ proc'[act'.p].result.api = 0
                 /\ proc'[act'.p].result.total = SumProofs(StoredProofs(ls)) ]_vars

C14_Witness ==
  /\ act.name = "WalletAnswered"
  /\ act.status = 402
  /\ Actor.op = "getBalance"
  /\ Actor.result.tag = "balance"
  /\ ~ls.token.present

\* C15: when the node answers a paid request, streaming or not, with 401 or
\* 403, the step that ends the call with the error of that status has
\* cleared the cached token (proofs and history are as before): where the
\* caller sees the error, no token is cached.
C15_RejectionClearsToken ==
  [][ ( /\ act'.name \in {"CompletionAnswered", "StreamCompletionAnswered"}
        /\ act'.status \in {401, 403} )
      => /\ ls.token = Stored(proc[act'.p].tok)
         /\ ~ls'.token.present
         /\ ls'.proofs = ls.proofs
         /\ ls'.history = ls.history
         /\ proc'[act'.p].pc = "idle"
         /\ proc'[act'.p].result = HandleHttpError(act'.status)
         /\ proc'[act'.p].result.kind = "throw" ]_vars

C15_Witness ==
  /\ act.name = "StreamCompletionAnswered"
  /\ act.status = 403
  /\ Actor.pc = "idle"
  /\ Actor.result = Throw("NetworkError")
  /\ ~ls.token.present

\* The cached token goes from absent to present in getOrCreateApiToken, after
\* a split that succeeded, and holds the proofs the split sent.
TokenCreatedByMinter ==
  /\ ~ls.token.present
  /\ ls'.token.present
  /\ act'.name = "SendAnswered"
  /\ act'.kind = "ok"
  /\ \E o \in MintSendOutcomes(env, proc[act'.p].amt, proc[act'.p].rd) :
       o.kind = "ok" /\ ls'.token.val = EncodeToken(MintUrl, o.send)

\* The cached token goes from present to absent in refundRemainingBalance,
\* after the node answered the refund request with 200.
TokenClearedByRefund ==
  /\ ls.token.present
  /\ ~ls'.token.present
  /\ \/ act'.name = "RefundAnswered" /\ act'.status = 200
     \/ act'.name = "RefundReceiveAnswered" /\ act'.kind = "ok"

\* The cached token goes from present to absent on a 401 or 403 answer to a
\* paid request.
TokenClearedByRejection ==
  /\ ls.token.present
  /\ ~ls'.token.present
  /\ act'.name \in {"CompletionAnswered", "StreamCompletionAnswered"}
  /\ act'.status \in {401, 403}

\* The cached token goes from present to absent on a 402 answer to the
\* wallet query of fetchBalances.
TokenClearedByPaymentRequired ==
  /\ ls.token.present
  /\ ~ls'.token.present
  /\ act'.name = "WalletAnswered"
  /\ act'.status = 402

\* C16 as stated: the cached token changes only by being created in
\* getOrCreateApiToken after a successful split, or by being cleared by a
\* refund or by a 401/403 answer to a paid request.
C16_TokenLifecycle ==
  [][ ls'.token # ls.token
      => \/ TokenCreatedByMinter
         \/ TokenClearedByRefund
         \/ TokenClearedByRejection ]_vars

\* C16 as amended: the cached token changes only by being created in
\* getOrCreateApiToken after a successful split, or by being cleared by a
\* refund, by a 401/403 answer to a paid request, or by a 402 answer to the
\* wallet query of getBalance; it is never replaced by another token.
C16_TokenLifecycleWith402 ==
  [][ ls'.token # ls.token
      => \/ TokenCreatedByMinter
         \/ TokenClearedByRefund
         \/ TokenClearedByRejection
         \/ TokenClearedByPaymentRequired ]_vars

C16_Witness ==
  /\ act.name = "WalletAnswered"
  /\ act.status = 402
  /\ ~ls.token.present
  /\ Actor.op \in {"chatCompletion", "streamChatCompletion"}

\* C17: with two callers interleaved at their awaits, the step in which
\* importToken or refundRemainingBalance appends the proofs the mint returned
\* reads the proofs key and writes it back at once: the proofs stored just
\* before the step are all stored just after it, in order, followed by the
\* proofs the mint returned.
C17_AppendKeepsProofs ==
  [][ ( /\ act'.name \in {"ImportReceiveAnswered", "RefundReceiveAnswered"}
        /\ act'.kind = "ok" )
      => \E o \in MintReceiveOutcomes(env, proc[act'.p].tok) :
           /\ o.kind = "ok"
           /\ env'.next = o.env.next
           /\ StoredProofs(ls') = StoredProofs(ls) \o o.proofs
           /\ Secrets(StoredProofs(ls)) \subseteq Secrets(StoredProofs(ls')) ]_vars

C17_Witness ==
  /\ act.name \in {"ImportReceiveAnswered", "RefundReceiveAnswered"}
  /\ act.kind = "ok"
  /\ \E q \in Procs \ {act.p} : proc[q].pc \in {"gen_mint", "imp_mint", "rf_mint"}
  /\ Len(StoredProofs(ls)) >= 2

\* C18: a successful importToken leaves the proofs key holding the proofs P
\* stored before followed by the proofs Q the mint returned for the token,
\* which share no secret with P; the sum after is sum(P) + sum(Q), and the
\* amount reported is sum(Q), the worth of the token.
C18_ImportAppends ==
  [][ ( /\ act'.name = "ImportReceiveAnswered"
        /\ act'.kind = "ok"
        /\ proc[act'.p].tok.proofs # <<>> )
      => \E o \in MintReceiveOutcomes(env, proc[act'.p].tok) :
           /\ o.kind = "ok"
           /\ Secrets(o.proofs) \cap Secrets(StoredProofs(ls)) = {}
           /\ ls'.proofs = Stored(StoredProofs(ls) \o o.proofs)
           /\ GetBalanceFromStoredProofs(ls')
                = GetBalanceFromStoredProofs(ls) + SumProofs(o.proofs)
           /\ SumProofs(o.proofs) = SumProofs(proc[act'.p].tok.proofs)
           /\ proc'[act'.p].pc = "idle"
           /\ proc'[act'.p].result
                = [Success("Successfully imported") EXCEPT
                     !.amount = SumProofs(o.proofs)]
           /\ ls'.token = ls.token
           /\ ls'.history = ls.history ]_vars

C18_Witness ==
  /\ act.name = "ImportReceiveAnswered"
  /\ act.kind = "ok"
  /\ Actor.result.tag = "success"
  /\ Actor.result.amount = 3
  /\ GetBalanceFromStoredProofs(ls) = 4

C20_NoDuplicateSecrets ==
  Cardinality(Secrets(StoredProofs(ls))) = Len(StoredProofs(ls))

C20_Witness ==
  /\ act.name = "ImportReceiveAnswered"
  /\ act.kind = "ok"
  /\ Len(StoredProofs(ls)) >= 3
  /\ Cardinality(Secrets(StoredProofs(ls))) >= 3

\* C21: with one call in flight at a time, no secret is both among the stored
\* proofs and among the proofs of the cached token.
C21_TokenProofsNotStored ==
  ls.token.present
    => Secrets(ls.token.val.proofs) \cap Secrets(StoredProofs(ls)) = {}

C21_Witness ==
  /\ act.name = "SendAnswered"
  /\ act.kind = "ok"
  /\ ls.token.present
  /\ Len(StoredProofs(ls)) >= 2
  /\ Secrets(ls.token.val.proofs) # {}

PaidOps == {"chatCompletion", "streamChatCompletion"}
PaidCallSteps == {"CallChatCompletion", "CallStreamChatCompletion"}
CompletionSteps == {"CompletionAnswered", "StreamCompletionAnswered"}

\* A paid request has ended by throwing.
PaidRequestThrew ==
  Actor.op \in PaidOps /\ Actor.pc = "idle" /\ Actor.result.kind = "throw"

\* The error of a paid request that ended before its request to the node was
\* answered: an unknown model, the balance check, or the split.
ErrorBeforeAnswer ==
  IF act.name \in PaidCallSteps /\ act.kind \notin DOMAIN ModelCost2
  THEN "InvalidModelError"
  ELSE IF act.name = "SendAnswered" THEN "TokenGenerationError"
  ELSE "InsufficientBalanceError"

\* C29 as stated: a paid request that throws throws InvalidModelError for an
\* unknown model, InsufficientBalanceError for the balance check or a 402,
\* TokenGenerationError for a failed split, AuthenticationError for a 401,
\* and NetworkError for every other failure of the request to the node.
C29_ErrorTaxonomy ==
  PaidRequestThrew
    => Actor.result.tag =
         ( IF act.name \in CompletionSteps
           THEN ( IF act.status = 401 THEN "AuthenticationError"
                  ELSE IF act.status = 402 THEN "InsufficientBalanceError"
                  ELSE "NetworkError" )
           ELSE IF act.name = "StreamReadAnswered" THEN "NetworkError"
           ELSE ErrorBeforeAnswer )

\* C29 as amended: as stated, except that a 400 is a ValidationError and a
\* 404, 429 or 500 is a plain RoutstrClientError with the code NOT_FOUND,
\* RATE_LIMITED or SERVER_ERROR; NetworkError is what is left: no answer, any
\* other status (403), a 200 whose body cannot be read, a failed stream read.
\* And every such failure ends the call by throwing.
C29_ErrorTaxonomyByStatus ==
  /\ PaidRequestThrew
       => Actor.result.tag =
            ( IF act.name \in CompletionSteps
              THEN ( CASE act.status = 400 -> "ValidationError"
                       [] act.status = 401 -> "AuthenticationError"
                       [] act.status = 402 -> "InsufficientBalanceError"
                       [] act.status = 404 -> "RoutstrClientError:NOT_FOUND"
                       [] act.status = 429 -> "RoutstrClientError:RATE_LIMITED"
                       [] act.status = 500 -> "RoutstrClientError:SERVER_ERROR"
                       [] OTHER -> "NetworkError" )
              ELSE IF act.name = "StreamReadAnswered" THEN "NetworkError"
              ELSE ErrorBeforeAnswer )
  /\ ( /\ Actor.op \in PaidOps
       /\ \/ act.name \in CompletionSteps /\ (act.status # 200 \/ act.kind = "nobody")
          \/ act.name = "StreamReadAnswered" /\ act.kind = "error"
          \/ act.name = "SendAnswered" /\ act.kind # "ok" )
       => PaidRequestThrew

C29_Witness ==
  /\ PaidRequestThrew
  /\ act.name = "CompletionAnswered"
  /\ act.status = 404
  /\ Actor.result = Throw("RoutstrClientError:NOT_FOUND")
  /\ ls.token.present

\* How far a paid request has come: the frame at the bottom of its stack.
Stage(pr) ==
  IF pr.op \notin PaidOps \/ pr.stack = <<>> THEN 0
  ELSE LET f == pr.stack[Len(pr.stack)].f
       IN CASE f \in {"cc_balance", "sc_balance"} -> 1
            [] f \in {"cc_token", "sc_token"} -> 2
            [] f \in {"cc_fetch", "sc_fetch"} -> 3
            [] f \in {"cc_refund", "sc_refund"} -> 4
            [] OTHER -> 0

PaidFrame(pr) == pr.stack[Len(pr.stack)]

\* C30: a paid request goes through its stages in order (balance check,
\* getOrCreate, request to the node, refund), each await belongs to its stage,
\* it passes the balance check exactly when the total (the sum of the stored
\* proofs) is at least the price and else throws InsufficientBalanceError
\* with no split and no request started, the refund is started only on a 200
\* whose body was read (on the end of the stream), and the history changes
\* only in the step that ends the refund, by one 'spent' record appended,
\* whatever the refund's outcome; a call that throws leaves it unchanged.
C30_PaidRequestOrder ==
  [][ proc'[act'.p].op \in PaidOps
      => LET old  == proc[act'.p]
             new  == proc'[act'.p]
             from == IF old.pc = "idle" THEN 0 ELSE Stage(old)
             to   == Stage(new)
         IN /\ new.pc # "idle" => to >= from /\ to >= 1
            /\ new.pc = "fb_fetch" => to = 1
            /\ new.pc = "gen_mint" => to = 2
            /\ new.pc \in {"cc_fetch", "sc_fetch", "sc_read"} => to = 3
            /\ new.pc \in {"rf_fetch", "rf_mint"} => to \in {1, 4}
            /\ (from <= 1 /\ to >= 2)
                 => /\ PaidFrame(new).total = SumProofs(StoredProofs(ls'))
                    /\ PaidFrame(new).total * 2 >= ModelCost2[PaidFrame(new).model]
            /\ (from <= 1 /\ new.pc = "idle")
                 => /\ new.result \in {Throw("InvalidModelError"),
                                       Throw("InsufficientBalanceError")}
                    /\ act'.name \notin CompletionSteps \cup {"SendAnswered"}
                    /\ new.result = Throw("InsufficientBalanceError")
                         => \E m \in DOMAIN ModelCost2 :
                              SumProofs(StoredProofs(ls')) * 2 < ModelCost2[m]
            /\ (from = 3 /\ to = 4)
                 => \/ act'.name = "CompletionAnswered" /\ act'.status = 200
                       /\ act'.kind = ""
                    \/ act'.name = "StreamReadAnswered" /\ act'.kind = "done"
            /\ (from = 3 /\ new.pc = "idle")
                 => /\ new.result.kind = "throw"
                    /\ act'.name \in CompletionSteps \cup {"StreamReadAnswered"}
            /\ (from = 4 /\ new.pc = "idle")
                 => /\ new.result.kind = "value"
                    /\ act'.name \in {"RefundAnswered", "RefundReceiveAnswered"}
                    /\ ls'.history.present
                    /\ Len(ls'.history.val) = Len(GetTransactionHistory(ls)) + 1
                    /\ SubSeq(ls'.history.val, 1, Len(GetTransactionHistory(ls)))
                         = GetTransactionHistory(ls)
                    /\ ls'.history.val[Len(ls'.history.val)].type = "spent"
                    /\ ls'.history.val[Len(ls'.history.val)].model
                         = PaidFrame(old).model
            /\ ~(from = 4 /\ new.pc = "idle") => ls'.history = ls.history ]_vars

C30_Witness ==
  /\ Actor.op = "streamChatCompletion"
  /\ Actor.pc = "idle"
  /\ Actor.result.kind = "value"
  /\ act.name = "RefundAnswered"
  /\ act.status # 200
  /\ Len(GetTransactionHistory(ls)) = 1
  /\ ls.token.present

\* The result of the gift operation that ran last, and its arguments.
GiftResult == proc[Main].result
GiftCall == proc[Main].result.args

\* C23: unwrapping, with the recipient's key, the event that wrapCashuToken
\* built for that recipient gives a gift with the token and the note that
\* were wrapped (an undefined note stays undefined) and the recipient's
\* public key.
C23_RoundTrip ==
  \A token \in GiftTokens, note \in {Absent(""), Stored("hi")},
     sender \in PrivateKeys, recipient \in PrivateKeys, now \in ClockMs :
    ( /\ act.name = "unwrap"
      /\ GiftCall.key = recipient
      /\ GiftCall.event
           = WrapCashuToken(token, GetPublicKeyFromPrivateKey(recipient),
                            sender, note, now).val )
      => /\ GiftResult.kind = "value"
         /\ GiftResult.gift
              = Stored(GiftWrap(Stored(token),
                                GetPublicKeyFromPrivateKey(recipient), note))

\* The correspondent has unwrapped a gift the client sent with no note.
C23_Witness ==
  /\ act.name = "unwrap"
  /\ GiftCall.key = "bob"
  /\ GiftCall.event.pubkey = GetPublicKeyFromPrivateKey(ClientKey)
  /\ GiftCall.event.sig.signer = GetPublicKeyFromPrivateKey(ClientKey)
  /\ \E i \in 1..Len(GetStoredWrappedTokens(ls)) :
       GetStoredWrappedTokens(ls)[i] = GiftCall.event
  /\ GiftResult.gift.present
  /\ GiftResult.gift.val.token.present
  /\ ~GiftResult.gift.val.note.present

\* The event has no `p` tag with the public key of the given private key, or
\* no gift=cashu tag.
NotAddressedTo(event, key) ==
  \/ ~event.tags.present
  \/ ~\E i \in 1..Len(event.tags.val) :
        event.tags.val[i] = <<"p", GetPublicKeyFromPrivateKey(key)>>
  \/ ~\E i \in 1..Len(event.tags.val) : event.tags.val[i] = <<"gift", "cashu">>

\* C24: unwrap of an event that has no `p` tag with the own public key, or
\* no gift=cashu tag, gives null and the cipher is not called; so does
\* unwrap, with another key, of an event wrapped for a recipient.
C24_NotForUsIsNull ==
  /\ (act.name = "unwrap" /\ NotAddressedTo(GiftCall.event, GiftCall.key))
       => /\ GiftResult.kind = "value"
          /\ ~GiftResult.gift.present
          /\ ~GiftResult.decrypts
  /\ \A token \in GiftTokens, note \in {Absent(""), Stored("hi")},
        sender \in PrivateKeys, recipient \in PrivateKeys, now \in ClockMs :
       ( /\ act.name = "unwrap"
         /\ GiftCall.key # recipient
         /\ GiftCall.event
              = WrapCashuToken(token, GetPublicKeyFromPrivateKey(recipient),
                               sender, note, now).val )
         => GiftResult.kind = "value" /\ ~GiftResult.gift.present

\* The correspondent's key on a well-formed gift for the client.
C24_Witness ==
  /\ act.name = "unwrap"
  /\ GiftCall.key = "bob"
  /\ GiftCall.event = Received(CHOOSE t \in GiftTokens : Len(t.proofs) = 1,
                               Stored("hi"))
  /\ ~GiftResult.gift.present
  /\ ~GiftResult.decrypts

\* The structure isValidCashuGiftWrap looks at.
LooksLikeGiftWrap(event) ==
  /\ event.kind = GIFT_WRAP_KIND
  /\ \E i \in 1..Len(event.tags.val) : event.tags.val[i][1] = "p"
  /\ \E i \in 1..Len(event.tags.val) : event.tags.val[i] = <<"gift", "cashu">>

\* C25: for an event (with its tags array) isValidCashuGiftWrap is true
\* exactly when the kind is 1059 and there is some `p` tag and a gift=cashu
\* tag; events that differ only in content, signature, sender or the value of
\* the `p` tag get the same answer.
C25_StructuralOnly ==
  (act.name = "isValidCashuGiftWrap" /\ GiftCall.event.tags.present)
    => /\ GiftResult.kind = "value"
       /\ GiftResult.flag = LooksLikeGiftWrap(GiftCall.event)
       /\ \A e \in KnownEvents(ls) :
            ( /\ e.tags.present
              /\ e.kind = GiftCall.event.kind
              /\ Len(e.tags.val) = Len(GiftCall.event.tags.val)
              /\ \A i \in 1..Len(e.tags.val) :
                   /\ e.tags.val[i][1] = GiftCall.event.tags.val[i][1]
                   /\ e.tags.val[i][1] # "p" => e.tags.val[i] = GiftCall.event.tags.val[i] )
              => IsValidCashuGiftWrap(e) = Returned(GiftResult.flag)

\* An event passes the check and the client cannot unwrap it: its `p` tag
\* has no value.
C25_Witness ==
  /\ act.name = "isValidCashuGiftWrap"
  /\ GiftResult.flag
  /\ GiftCall.event.tags.present
  /\ \E i \in 1..Len(GiftCall.event.tags.val) : GiftCall.event.tags.val[i] = <<"p">>
  /\ ~UnwrapCashuToken(GiftCall.event, ClientKey).gift.present

\* An event the holder of the key cannot open: content that is no
\* ciphertext, a ciphertext under another key, or a payload that is no JSON
\* (or JSON null).
Unreadable(event, key) ==
  \/ event.content = NoCipher
  \/ event.content.key # {GetPublicKeyFromPrivateKey(key), event.pubkey}
  \/ event.content.text.json # "object"

\* No gift operation has changed the proofs or the cached token.
GiftFrame ==
  /\ ls.proofs = UsedStorage.proofs
  /\ ls.token = UsedStorage.token

GiftNeverRaises ==
  act.name \in {"unwrap", "unwrapCashuToken", "wrapCashuToken"}
    => GiftResult.kind = "value"

GiftClientFailures ==
  /\ ( /\ act.name = "unwrapCashuToken"
       /\ \/ Unreadable(GiftCall.event, ClientKey)
          \/ NotAddressedTo(GiftCall.event, ClientKey)
          \/ GiftCall.event.kind # GIFT_WRAP_KIND )
       => /\ GiftResult.tag = "failure"
          /\ GiftResult.msg # ""
          /\ ~GiftResult.gift.present
  /\ (act.name = "wrapCashuToken" /\ GiftCall.recipientPubkey \notin Pubkeys)
       => GiftResult.tag = "failure" /\ GiftResult.msg # ""

\* C26 as stated: no gift operation raises; unwrap gives null for an event
\* that is unreadable, has the wrong tags or the wrong kind, and the client's
\* unwrapCashuToken gives a failure result for it; the client's
\* wrapCashuToken gives a failure result when wrapping fails; the proofs and
\* the cached token stay as they were.
C26_FailuresNeverRaise ==
  /\ GiftNeverRaises
  /\ ( /\ act.name = "unwrap"
       /\ \/ Unreadable(GiftCall.event, GiftCall.key)
          \/ NotAddressedTo(GiftCall.event, GiftCall.key)
          \/ GiftCall.event.kind # GIFT_WRAP_KIND )
       => ~GiftResult.gift.present
  /\ GiftClientFailures
  /\ GiftFrame

\* C26 as amended: the same, except that unwrap does not look at the kind:
\* it gives null for an event that is unreadable or has the wrong tags, and
\* only the client's unwrapCashuToken refuses an event of another kind.
C26_FailuresNeverRaiseKindByClient ==
  /\ GiftNeverRaises
  /\ ( /\ act.name = "unwrap"
       /\ \/ Unreadable(GiftCall.event, GiftCall.key)
          \/ NotAddressedTo(GiftCall.event, GiftCall.key) )
       => ~GiftResult.gift.present
  /\ GiftClientFailures
  /\ GiftFrame

\* The client refuses an event of another kind that unwrap itself opens.
C26_Witness ==
  /\ act.name = "unwrapCashuToken"
  /\ GiftCall.event.kind # GIFT_WRAP_KIND
  /\ GiftResult.tag = "failure"
  /\ UnwrapCashuToken(GiftCall.event, ClientKey).gift.present
  /\ ls.wrapped.present
  /\ GiftFrame

\* C27: a successful wrapCashuToken of the client appends the event, signed
\* by the client, as the last element of the list of sent gifts;
\* removeWrappedToken(id) leaves exactly the entries with another id, in
\* their order, and the same list when no entry has the id.
C27_SentGiftList ==
  [][ LET old == GetStoredWrappedTokens(ls)
          new == GetStoredWrappedTokens(ls')
          res == proc'[Main].result
          Other(e) == e.id # res.args.event.id
      IN /\ (act'.name = "wrapCashuToken" /\ res.tag = "success")
              => /\ ls'.wrapped.present
                 /\ new = Append(old, res.event)
                 /\ res.event.sig
                      = [signer |-> GetPublicKeyFromPrivateKey(ClientKey),
                         id |-> res.event.id]
         /\ act'.name = "removeWrappedToken"
              => /\ new = SelectSeq(old, Other)
                 /\ (\A i \in 1..Len(old) : Other(old[i])) => new = old ]_vars

\* An id held by two of three entries has been removed, and an id held by
\* none has left three entries as they were.
C27_Witness ==
  /\ act.name = "removeWrappedToken"
  /\ Len(GiftResult.list) = MaxWrapped
  /\ GiftResult.list[1].id = GiftCall.event.id
  /\ GiftResult.list[2].id # GiftCall.event.id
  /\ GiftResult.list[Len(GiftResult.list)].id = GiftCall.event.id
  /\ Len(GetStoredWrappedTokens(ls)) = Len(GiftResult.list) - 2

\* C22: addTransaction(t) leaves the history as it was with t as its last
\* element, whatever t's timestamp; every step leaves the entries there were
\* in place and in order.
C22_LedgerAppendOnly ==
  [][ LET old == GetTransactionHistory(ls)
          new == GetTransactionHistory(ls')
      IN /\ act'.name = "addTransaction"
              => /\ ls'.history.present
                 /\ new = Append(old, proc'[Main].result.record)
         /\ Len(new) >= Len(old)
         /\ SubSeq(new, 1, Len(old)) = old ]_vars

\* A record has been added after two others, with an earlier timestamp than
\* the one before it.
C22_Witness ==
  /\ act.name = "addTransaction"
  /\ Len(GetTransactionHistory(ls)) = 3
  /\ ls.history.val[3] = proc[Main].result.record
  /\ ls.history.val[3].timestamp < ls.history.val[2].timestamp
  /\ ls.history.val[1] = UsedStorage.history.val[1]

C31_SplitSpendRefundBalance ==
  [][ LET old == proc[act'.p]
          new == proc'[act'.p]
          sum == SumProofs(StoredProofs(ls))
      IN /\ (act'.name = "SendAnswered" /\ act'.kind = "ok" /\ ~ls.token.present)
              => /\ SumProofs(StoredProofs(ls')) = sum - old.amt
                 /\ ls'.token.present
                 /\ SumProofs(ls'.token.val.proofs) = old.amt
         /\ ( /\ act'.name = "RefundAnswered"
              /\ act'.status = 200
              /\ ls.token = Stored(old.tok)
              /\ RemoteBalance(env, old.tok) = 0 )
              => /\ ls'.proofs = ls.proofs
                 /\ ~ls'.token.present
                 /\ env'.next = env.next
         /\ (act'.name = "CallGetBalance" /\ ~ls.token.present)
              => /\ new.pc = "idle"
                 /\ new.result = BalanceRes(0, sum, sum)
                 /\ ls' = ls ]_vars

\* The scenario has run, scaled to a store worth 3 and a price of 1: a
\* token worth 1 was split off and spent in full, the refund cleared it, and
\* getBalance reports 2 with nothing from the node.
C31_Witness ==
  /\ act.name = "CallGetBalance"
  /\ Actor.result = BalanceRes(0, 2, 2)
  /\ env.imported = 3
  /\ env.consumed = MSATS_PER_SAT
  /\ env.acct = <<>>
  /\ ~ls.token.present
  /\ Len(GetTransactionHistory(ls)) = 1
  /\ ls.history.val[1].model = "m1"

\* The caller that did not take the last step.
Bystander == IF act.p \in Procs THEN proc[CHOOSE q \in Procs : q # act.p] ELSE IdleProc

\* C32: a call that passed the cache check and read the proofs, and whose
\* split is answered after another call has cached a token, writes over it:
\* the cached token becomes its own, worth its amount, and the store becomes
\* its change set (proofs of its stale read and fresh ones); when the mint
\* refuses the split the call fails and writes nothing.
C32_LaterSplitOverwrites ==
  [][ (act'.name = "SendAnswered" /\ ls.token.present)
      => LET old == proc[act'.p]
             new == proc'[act'.p]
         IN IF act'.kind = "ok"
            THEN /\ ls'.token.present
                 /\ old.op = "getOrCreate" => new.result = TokenRes(ls'.token.val)
                 /\ \A s \in Secrets(ls'.token.val.proofs) :
                      s \in Secrets(old.rd) \/ s >= env.next
                 /\ SumProofs(ls'.token.val.proofs) = old.amt
                 /\ \A s \in Secrets(StoredProofs(ls')) :
                      s \in Secrets(old.rd) \/ s >= env.next
                 /\ SumProofs(StoredProofs(ls')) = SumProofs(old.rd) - old.amt
            ELSE /\ ls' = ls
                 /\ old.op = "getOrCreate" => new.result = Null ]_vars

\* Both calls have returned a token; the token of the earlier one is
\* unspent, is not the cached one, and none of its proofs is stored.
C32_Witness ==
  /\ act.name = "SendAnswered"
  /\ act.kind = "ok"
  /\ Actor.op = "getOrCreate" /\ Actor.pc = "idle"
  /\ Bystander.op = "getOrCreate" /\ Bystander.pc = "idle"
  /\ Bystander.result.tag = "token"
  /\ Actor.result.tag = "token"
  /\ ls.token = Stored(Actor.result.tok)
  /\ Bystander.result.tok # Actor.result.tok
  /\ Secrets(Bystander.result.tok.proofs) \cap Secrets(StoredProofs(ls)) = {}
  /\ Secrets(Bystander.result.tok.proofs) \cap Secrets(ls.token.val.proofs) = {}
  /\ Secrets(Bystander.result.tok.proofs) \cap env.spent = {}

\* The other outcome: the mint has refused the later split, whose pick holds
\* a proof the earlier split spent, and that call returned null.
C32_RejectedAsSpent ==
  /\ act.name = "SendAnswered"
  /\ act.kind = "error"
  /\ Actor.op = "getOrCreate" /\ Actor.pc = "idle"
  /\ Actor.result = Null
  /\ Bystander.op = "getOrCreate" /\ Bystander.pc = "idle"
  /\ Bystander.result.tag = "token"
  /\ ls.token = Stored(Bystander.result.tok)


\* C33: a refund racing an importToken loses no proofs.  No step of a refund
\* or of an importToken removes a stored proof, whatever the other caller is
\* doing, and the step that appends stores every proof the mint issued to it:
\* the proofs recovered by both are stored after both have completed.
C33_RefundImportKeepBoth ==
  [][ (act'.p \in Procs /\ proc'[act'.p].op \in {"refund", "importToken"})
      => /\ Secrets(StoredProofs(ls)) \subseteq Secrets(StoredProofs(ls'))
         /\ ( /\ act'.name \in {"RefundReceiveAnswered", "ImportReceiveAnswered"}
              /\ act'.kind = "ok" )
            => \A s \in env.next .. (env'.next - 1) :
                 s \in Secrets(StoredProofs(ls')) ]_vars

\* The second caller's refund has appended its proofs after an importToken
\* of the first caller, which was in flight when the refund started, had
\* appended its own; both returned success.
C33_Witness ==
  /\ act.name = "RefundReceiveAnswered"
  /\ act.kind = "ok"
  /\ act.p = "other"
  /\ proc["other"].pc = "idle" /\ proc["other"].result.tag = "success"
  /\ proc[Main].op = "importToken" /\ proc[Main].pc = "idle"
  /\ proc[Main].result.tag = "success"
  /\ SumProofs(StoredProofs(ls)) > proc[Main].result.amount

\* C33 as stated: when the later of a refund and an importToken appends its
\* proofs after the other has appended its own, its write overwrites the
\* earlier update and a proof stored before the write is missing after it.
C33_LaterWriterOverwrites ==
  [][ ( /\ act'.name \in {"RefundReceiveAnswered", "ImportReceiveAnswered"}
        /\ act'.kind = "ok"
        /\ env'.next > env.next
        /\ act'.p = "other"
        /\ proc[Main].op \in {"refund", "importToken"} \ {proc["other"].op}
        /\ proc[Main].pc = "idle"
        /\ proc[Main].result.tag = "success"
        /\ StoredProofs(ls) # <<>> )
      => ~(Secrets(StoredProofs(ls)) \subseteq Secrets(StoredProofs(ls'))) ]_vars


\* C34: when proofs were appended to the store while a split was waiting for
\* the mint (the store holds proofs the split did not read), the split's
\* answer replaces the store by the change set of the stale read: none of
\* the proofs appended in between is stored afterwards, and the store is
\* worth what was read less the amount.
C34_StaleSplitDropsAppended ==
  [][ ( /\ act'.name = "SendAnswered"
        /\ act'.kind = "ok"
        /\ proc'[act'.p].result.tag = "token"
        /\ ~(Secrets(StoredProofs(ls)) \subseteq Secrets(proc[act'.p].rd)) )
      => LET old == proc[act'.p]
         IN /\ (Secrets(StoredProofs(ls)) \ Secrets(old.rd))
                 \cap Secrets(StoredProofs(ls')) = {}
            /\ SumProofs(StoredProofs(ls')) = SumProofs(old.rd) - old.amt ]_vars

\* The second caller's getOrCreate has returned a token after an importToken
\* of the first caller, in flight when the split read the store, had
\* returned success; the node holds nothing, and the store and the cached
\* token together are worth less than what was imported.
C34_Witness ==
  /\ act.name = "SendAnswered"
  /\ act.kind = "ok"
  /\ act.p = "other"
  /\ proc["other"].op = "getOrCreate" /\ proc["other"].pc = "idle"
  /\ proc["other"].result.tag = "token"
  /\ proc[Main].op = "importToken" /\ proc[Main].pc = "idle"
  /\ proc[Main].result.tag = "success"
  /\ ls.token = Stored(proc["other"].result.tok)
  /\ env.acct = <<>>
  /\ SumProofs(StoredProofs(ls)) + SumProofs(ls.token.val.proofs)
       + proc[Main].result.amount <= env.imported


\* The refund token a refund holds while the mint redeems it, in millisats.
RefundInHand(pr) ==
  IF pr.pc = "rf_mint" THEN SumProofs(pr.tok.proofs) * MSATS_PER_SAT ELSE 0

\* C35: when refundRemainingBalance returns success=false, whatever the
\* cause, the value of the cached token is not lost: what the stored proofs
\* and a later refund can recover after the return is at least what they
\* could recover before the failing step plus the refund token the call held.
C35_FailedRefundKeepsValue ==
  [][ ( /\ act'.name \in {"RefundAnswered", "RefundReceiveAnswered"}
        /\ proc'[act'.p].pc = "idle"
        /\ proc'[act'.p].op = "refund"
        /\ proc'[act'.p].result.tag = "failure" )
      => Recoverable' >= Recoverable + RefundInHand(proc[act'.p]) ]_vars


\* C36: every token getOrCreateApiToken(amount) returns carries proofs worth
\* at least the amount rounded up to whole sats, whether the call returned at
\* once (the cached token) or after a split.
C36_ReturnedTokenCoversAmount ==
  [][ /\ \A a2 \in Amounts2 :
           ( /\ act'.name = "CallGetOrCreate"
             /\ Step(ls', proc'[act'.p])
                  = GetOrCreateApiToken(ls, Called(act'.p, "getOrCreate"), a2)
             /\ proc'[act'.p].result.tag = "token" )
           => SumProofs(proc'[act'.p].result.tok.proofs) >= Ceil2(a2)
      /\ ( /\ act'.name = "SendAnswered"
           /\ proc'[act'.p].op = "getOrCreate"
           /\ proc'[act'.p].result.tag = "token" )
         => SumProofs(proc'[act'.p].result.tok.proofs) >= proc[act'.p].amt ]_vars


\* The node holds an account of zero balance for the cached token.
Exhausted ==
  /\ ls.token.present
  /\ ls.token.val \in DOMAIN env.acct
  /\ env.acct[ls.token.val] = 0

\* The last step is one the claim speaks of: a getBalance or paid-request
\* call, a wallet query answered OK, or a paid request answered 402.
AsPremised ==
  \/ act.name \in {"CallGetBalance", "CallChatCompletion", "CallStreamChatCompletion"}
  \/ act.name = "WalletAnswered" /\ act.status = 200
  \/ act.name \in {"CompletionAnswered", "StreamCompletionAnswered"} /\ act.status = 402

\* C37: when wallet queries go on being answered OK and paid requests go on
\* being answered 402, an exhausted token that is cached is eventually
\* cleared, unless a step other than those calls and answers comes first.
C37_ExhaustedTokenCleared ==
  ( /\ []<>(act.name = "WalletAnswered" /\ act.status = 200)
    /\ []<>( /\ act.name \in {"CompletionAnswered", "StreamCompletionAnswered"}
             /\ act.status = 402 ) )
  => ( (Exhausted /\ AsPremised) ~> (~ls.token.present \/ ~AsPremised) )


\* C38: a paid request whose fetch fails with a transport error or is
\* answered a status other than 200, 401 and 403 throws at once (no refund
\* is started) and leaves localStorage as it was: the token stays cached,
\* the proofs and the history are unchanged, and a getOrCreateApiToken call
\* made next, whatever the amount, returns the same token.
C38_FailedRequestKeepsToken ==
  [][ ( /\ act'.name \in {"CompletionAnswered", "StreamCompletionAnswered"}
        /\ act'.status \notin {200, 401, 403} )
      => /\ ls.token.present
         /\ ls' = ls
         /\ proc'[act'.p].pc = "idle"
         /\ proc'[act'.p].result.kind = "throw"
         /\ \A a2 \in Amounts2 :
              LET s == GetOrCreateApiToken(ls', Called(act'.p, "getOrCreate"), a2)
              IN /\ s.ls = ls'
                 /\ s.pr.pc = "idle"
                 /\ s.pr.result = TokenRes(ls.token.val) ]_vars

\* A streamed request was answered 429 with change stored and no history;
\* the request threw and the token is still cached.
C38_Witness ==
  /\ act.name = "StreamCompletionAnswered"
  /\ act.status = 429
  /\ Actor.pc = "idle"
  /\ Actor.result.kind = "throw"
  /\ ls.token.present
  /\ StoredProofs(ls) # <<>>
  /\ GetTransactionHistory(ls) = <<>>


\* C39: a refundRemainingBalance call whose token argument is not the cached
\* token leaves the cached token as it is at every step, whatever the node
\* and the mint answer: the cached token is cleared only by a refund of it.
C39_RefundOfOtherTokenKeepsCached ==
  [][ (act'.p \in Procs /\ proc'[act'.p].op = "refundOther")
      => ls'.token = ls.token ]_vars

====
